---- MODULE Spec2Model ----
(***************************************************************************)
(* State-machine models of the demonstration programs under                *)
(* src/CPP_Resume/02_modern_paradigms/examples:                            *)
(*   thread_demo.cpp  main(): data race, condition variable,               *)
(*                    producer/consumer, async/future, promise, atomics    *)
(*   raii_demo.cpp    main(): FileHandle, ScopeGuard, Timer, smart         *)
(*                    pointers, exception safety; and class ScopeGuard     *)
(*                    under an arbitrary client                            *)
(*   error_demo.cpp   demo_exception_safety()                              *)
(*   move_demo.cpp    class Buffer under an arbitrary client               *)
(*   smart_ptr_demo.cpp  demo_shared_ptr_basics, demo_weak_ptr; and        *)
(*                    shared_ptr / weak_ptr<Node> under an arbitrary       *)
(*                    client                                               *)
(*   constexpr_demo.cpp, basic_demo.cpp, dp_demo.cpp, recursion_demo.cpp,  *)
(*   error_demo.cpp   the Fibonacci and factorial functions, validate_age, *)
(*                    divide and demo_exceptions                           *)
(* Each program has its own specification over the module's variables; the *)
(* variables of the other programs stay at their initial values.           *)
(***************************************************************************)
EXTENDS Integers, Sequences, FiniteSets, TLC

\* ------------------------------------------------------------------ bounds
\* `iterations` of demo_data_race / demo_atomic (100000 in the source),
\* kept small so that the state space is finite and explorable.
Iterations == 2
\* the ScopeGuard objects an arbitrary client creates
NGuards == 3
\* the dismiss() calls an arbitrary client makes on one guard
MaxDismiss == 2
\* the lines of a raii_test.txt found in the working directory at start
MaxOldLines == 1
\* the named Buffer objects an arbitrary client has
NBufs == 2
\* the largest size a client constructs a Buffer with
MaxSize == 1
\* the Nodes an arbitrary client creates with make_shared
NClientObjs == 2
\* the largest argument of the int function fibonacci
MaxIntN == 47
\* the largest argument of the long long Fibonacci functions
MaxN == 30
\* the largest argument of fib_naive
MaxNaive == 15
\* the factorial arguments range from -NegArgs to at most MaxFactArg
NegArgs == 2
MaxFactArg == 14
\* how far outside MinAge..MaxAge the arguments of validate_age go
AgeMargin == 3

\* ------------------------------------------------------- program constants
\* producer(5): thread_demo.cpp line 214
Count == 5
\* for (int i = 0; i < 3; ++i) workers.emplace_back(...): line 146
NumWorkers == 3
\* std::thread cons1(consumer, 1), cons2(consumer, 2): lines 215-216
NumConsumers == 2
\* prom.set_value(42): line 256
PromiseValue == 42

VARIABLES
    \* ---- thread_demo.cpp
    mpc,              \* main(): the source line of its next statement (336: return)
    tpc,              \* position of every std::thread / async task
    ti,               \* the loop variable `i` of a thread function
    treg,             \* a thread's register / local `value`
    unsafe_counter,   \* line 57
    safe_counter,     \* line 58
    counter_mutex,    \* line 59: the holder, or NoThread
    atomic_counter,   \* line 279
    printed,          \* what main printed: <<source line, value>> (lines 85, 93, 246, 270, 299)
    mi,               \* the loop variable of main's spawn / join loops
    cv_mutex,         \* line 130: the holder, or NoThread
    cv_waiters,       \* threads blocked inside cv.wait (line 131)
    ready,            \* line 132
    got_signal,       \* the workers that got past cv.wait and printed (line 137)
    buffer,           \* line 168: std::queue<int>, front first
    buffer_mutex,     \* line 169
    buffer_cv_waiters,\* threads blocked inside buffer_cv.wait (line 170)
    producer_done,    \* line 171
    consumed,         \* the dequeued values, in dequeue order: [by, value]
    ub,               \* TRUE once front() or pop() ran on an empty queue (undefined)
    fut,              \* the shared states of f1, f2 (std::async) and prom
    results,          \* main's locals result1, result2 (lines 243-244), result (269)
    \* ---- raii_demo.cpp (and demo_exception_safety of error_demo.cpp)
    prog,             \* which program runs: "raii_demo" or "error_demo"
    rpc,              \* main(): the source line of its next statement
    exc,              \* the exception in flight, or "none"
    file_exists,      \* whether raii_test.txt exists in the file system
    file_content,     \* its content: the strings written, in order
    fh,               \* the FileHandle `file` in scope: file_ and read position
    guards,           \* the ScopeGuard objects: lifetime, active_, cleanup runs
    owned,            \* the Resources the unique_ptr locals in scope own (a stack)
    use_count,        \* the strong count of the shared_ptr control block (p3, p4)
    rlog,             \* events in order: fopen, fclose, create, destroy, ...
    \* ---- move_demo.cpp
    bufs,             \* the Buffer objects: whether alive, data_, size_
    heap,             \* the addresses new[] returned and delete[] has not freed
    last,             \* the last Buffer operation, with its operands as they were
    \* ---- smart_ptr_demo.cpp
    spc,              \* main(): the source line of its next statement (0: a client)
    sobj,             \* the make_shared objects: lifetime, counts, Node::next / prev
    slocals,          \* the shared_ptr locals: the object each points to, or Null
    sprinted,         \* the use_count values printed: <<source line, value>>
    \* ---- calls of the pure functions
    call,             \* the function called last and its argument
    ret,              \* how the call ended: a value, an exception, undefined
    fib_memo,         \* recursion_demo.cpp line 82: the global memo map
    ppc,              \* error_demo.cpp demo_exceptions: the source line of
                      \* its next statement (0: an arbitrary caller)
    caught            \* the line of the handler entered (0: none)

NoThread == "none"

RaceUnsafe == {"t1", "t2"}
RaceSafe   == {"t3", "t4"}
AtomicThreads == {"at1", "at2"}
\* workers[i] of demo_condition_variable, i = 0 .. NumWorkers-1
WorkerOf(i) == <<"w0", "w1", "w2">>[i + 1]
Workers == {WorkerOf(i) : i \in 0..(NumWorkers - 1)}
\* cons1, cons2 of demo_producer_consumer
ConsumerOf(i) == <<"cons1", "cons2">>[i]
Consumers == {ConsumerOf(i) : i \in 1..NumConsumers}
Tasks == {"task1", "task2"}
Threads == RaceUnsafe \cup RaceSafe \cup AtomicThreads \cup Workers
           \cup {"prod"} \cup Consumers \cup Tasks \cup {"pw"}

thrVars  == <<tpc, ti, treg>>
raceVars == <<unsafe_counter, safe_counter, counter_mutex, atomic_counter>>
cvVars   == <<cv_mutex, cv_waiters, ready, got_signal>>
pcVars   == <<buffer, buffer_mutex, buffer_cv_waiters, producer_done, consumed, ub>>
futVars  == <<fut, results>>
tvars == <<mpc, mi, printed, thrVars, raceVars, cvVars, pcVars, futVars>>
fileVars == <<file_exists, file_content, fh>>
rvars == <<prog, rpc, exc, fileVars, guards, owned, use_count, rlog>>
\* ---- move_demo.cpp
bvars == <<bufs, heap, last>>
\* ---- smart_ptr_demo.cpp
svars == <<spc, sobj, slocals, sprinted>>
\* ---- calls of the pure functions
fvars == <<call, ret, fib_memo, ppc, caught>>
vars == <<tvars, rvars, bvars, svars, fvars>>
\* what the steps of one program leave alone: the other programs' variables
notThread == <<rvars, bvars, svars, fvars>>
notRaii == <<tvars, bvars, svars, fvars>>
notMove == <<tvars, rvars, svars, fvars>>
notSmart == <<tvars, rvars, bvars, fvars>>
notPure == <<tvars, rvars, bvars, svars>>

\* ------------------------------------------------------- std::thread
\* std::thread t(f, args...): the new thread starts at the first statement of f.
SpawnThread(t, start) ==
    /\ tpc' = [tpc EXCEPT ![t] = start]
    /\ ti' = [ti EXCEPT ![t] = 0]
    /\ treg' = [treg EXCEPT ![t] = 0]

\* t.join() returns once the thread function has returned.
Joinable(t) == tpc[t] = "done"

\* ------------------------------------------------ 2. data race (lines 57-94)
\* increment_unsafe with the loop test written `i <= iterations`.
UnsafeReadOffByOne(t) ==
    /\ tpc[t] = "unsafe_read"
    /\ IF ti[t] <= Iterations
         THEN /\ treg' = [treg EXCEPT ![t] = unsafe_counter]
              /\ tpc' = [tpc EXCEPT ![t] = "unsafe_write"]
         ELSE /\ treg' = [treg EXCEPT ![t] = 0]
              /\ tpc' = [tpc EXCEPT ![t] = "done"]
    /\ UNCHANGED <<mpc, mi, printed, ti, raceVars, cvVars, pcVars, futVars, notThread>>

\* increment_unsafe: `++unsafe_counter` is an unsynchronised read followed by
\* an unsynchronised write of the shared int.
UnsafeRead(t) ==
    /\ tpc[t] = "unsafe_read"
    /\ IF ti[t] < Iterations
         THEN /\ treg' = [treg EXCEPT ![t] = unsafe_counter]
              /\ tpc' = [tpc EXCEPT ![t] = "unsafe_write"]
         ELSE /\ treg' = [treg EXCEPT ![t] = 0]
              /\ tpc' = [tpc EXCEPT ![t] = "done"]
    /\ UNCHANGED <<mpc, ti, printed, mi, cvVars, pcVars, futVars, raceVars, notThread>>

UnsafeWrite(t) ==
    /\ tpc[t] = "unsafe_write"
    /\ unsafe_counter' = treg[t] + 1
    /\ ti' = [ti EXCEPT ![t] = @ + 1]
    /\ tpc' = [tpc EXCEPT ![t] = "unsafe_read"]
    /\ UNCHANGED <<mpc, treg, safe_counter, counter_mutex, atomic_counter,
                   printed, mi, cvVars, pcVars, futVars, notThread>>

\* increment_safe without the lock_guard: the increment runs unprotected.
SafeLockNoExclusion(t) ==
    /\ tpc[t] = "safe_lock"
    /\ IF ti[t] < Iterations
         THEN tpc' = [tpc EXCEPT ![t] = "safe_read"]
         ELSE tpc' = [tpc EXCEPT ![t] = "done"]
    /\ UNCHANGED <<mpc, mi, printed, ti, treg, raceVars, cvVars, pcVars, futVars, notThread>>

\* increment_safe: std::lock_guard lock(counter_mutex) blocks until the mutex
\* is free (line 69).
SafeLock(t) ==
    /\ tpc[t] = "safe_lock"
    /\ IF ti[t] < Iterations
         THEN /\ counter_mutex = NoThread
              /\ counter_mutex' = t
              /\ tpc' = [tpc EXCEPT ![t] = "safe_read"]
         ELSE /\ tpc' = [tpc EXCEPT ![t] = "done"]
              /\ UNCHANGED counter_mutex
    /\ UNCHANGED <<mpc, ti, treg, unsafe_counter, safe_counter,
                   atomic_counter, printed, mi, cvVars, pcVars, futVars, notThread>>

\* ++safe_counter (line 70), again a read and a write of a plain int.
SafeRead(t) ==
    /\ tpc[t] = "safe_read"
    /\ treg' = [treg EXCEPT ![t] = safe_counter]
    /\ tpc' = [tpc EXCEPT ![t] = "safe_write"]
    /\ UNCHANGED <<mpc, ti, printed, mi, cvVars, pcVars, futVars, raceVars, notThread>>

SafeWrite(t) ==
    /\ tpc[t] = "safe_write"
    /\ safe_counter' = treg[t] + 1
    /\ treg' = [treg EXCEPT ![t] = 0]
    /\ tpc' = [tpc EXCEPT ![t] = "safe_unlock"]
    /\ UNCHANGED <<mpc, ti, unsafe_counter, counter_mutex, atomic_counter,
                   printed, mi, cvVars, pcVars, futVars, notThread>>

\* end of the loop body: ~lock_guard releases the mutex; ++i (lines 68, 71).
SafeUnlock(t) ==
    /\ tpc[t] = "safe_unlock"
    /\ counter_mutex' = IF counter_mutex = t THEN NoThread ELSE counter_mutex
    /\ ti' = [ti EXCEPT ![t] = @ + 1]
    /\ tpc' = [tpc EXCEPT ![t] = "safe_lock"]
    /\ UNCHANGED <<mpc, treg, unsafe_counter, safe_counter, atomic_counter,
                   printed, mi, cvVars, pcVars, futVars, notThread>>

\* demo_data_race, main thread (lines 80-93).
RaceResetUnsafe ==
    /\ mpc = 80
    /\ unsafe_counter' = 0
    /\ mpc' = 81
    /\ UNCHANGED <<safe_counter, counter_mutex, atomic_counter, printed,
                   mi, cvVars, pcVars, futVars, thrVars, notThread>>

RaceSpawnUnsafe ==
    /\ \/ mpc = 81 /\ SpawnThread("t1", "unsafe_read") /\ mpc' = 82
       \/ mpc = 82 /\ SpawnThread("t2", "unsafe_read") /\ mpc' = 83
    /\ UNCHANGED <<printed, mi, cvVars, pcVars, futVars, raceVars, notThread>>

RaceJoinUnsafe ==
    /\ \/ mpc = 83 /\ Joinable("t1") /\ mpc' = 84
       \/ mpc = 84 /\ Joinable("t2") /\ mpc' = 85
    /\ UNCHANGED <<printed, mi, cvVars, pcVars, futVars, raceVars, thrVars, notThread>>

RacePrintUnsafe ==
    /\ mpc = 85
    /\ printed' = Append(printed, <<85, unsafe_counter>>)
    /\ mpc' = 88
    /\ UNCHANGED <<mi, cvVars, pcVars, futVars, raceVars, thrVars, notThread>>

RaceResetSafe ==
    /\ mpc = 88
    /\ safe_counter' = 0
    /\ mpc' = 89
    /\ UNCHANGED <<unsafe_counter, counter_mutex, atomic_counter, printed,
                   mi, cvVars, pcVars, futVars, thrVars, notThread>>

RaceSpawnSafe ==
    /\ \/ mpc = 89 /\ SpawnThread("t3", "safe_lock") /\ mpc' = 90
       \/ mpc = 90 /\ SpawnThread("t4", "safe_lock") /\ mpc' = 91
    /\ UNCHANGED <<printed, mi, cvVars, pcVars, futVars, raceVars, notThread>>

RaceJoinSafe ==
    /\ \/ mpc = 91 /\ Joinable("t3") /\ mpc' = 92
       \/ mpc = 92 /\ Joinable("t4") /\ mpc' = 93
    /\ UNCHANGED <<printed, mi, cvVars, pcVars, futVars, raceVars, thrVars, notThread>>

RacePrintSafe ==
    /\ mpc = 93
    /\ printed' = Append(printed, <<93, safe_counter>>)
    /\ mpc' = 143
    /\ UNCHANGED <<mi, cvVars, pcVars, futVars, raceVars, thrVars, notThread>>

\* ---------------------------------------- std::mutex, std::condition_variable
\* lock() returns only when no thread holds the mutex.
MutexFree(m) == m = NoThread

\* unlock() by the holder.
Released(m, t) == IF m = t THEN NoThread ELSE m

\* notify_one() unblocks one of the waiting threads, if there is any.
NotifyOne(waiters) ==
    IF waiters = {} THEN {waiters} ELSE {waiters \ {w} : w \in waiters}

\* notify_all() unblocks every waiting thread.
NotifyAll(waiters) == {}

\* ---------------------------------- 4. condition variable (lines 130-162)
\* worker_thread line 135: std::unique_lock lock(cv_mutex).
WorkerLock(t) ==
    /\ tpc[t] = "worker_lock"
    /\ MutexFree(cv_mutex)
    /\ cv_mutex' = t
    /\ tpc' = [tpc EXCEPT ![t] = "worker_wait"]
    /\ UNCHANGED <<mpc, mi, printed, ti, treg, raceVars, cv_waiters, ready,
                   got_signal, pcVars, futVars, notThread>>

\* the predicate cv.wait evaluates with the mutex held (line 136)
WorkerPredicate == ready

\* line 136: cv.wait(lock, pred) is `while (!pred()) wait(lock);`: with the
\* mutex held the predicate is tested; if false the thread atomically
\* releases the mutex and blocks.
WorkerWait(t) ==
    /\ tpc[t] = "worker_wait"
    /\ IF WorkerPredicate
         THEN /\ tpc' = [tpc EXCEPT ![t] = "worker_print"]
              /\ UNCHANGED <<cv_mutex, cv_waiters>>
         ELSE /\ tpc' = [tpc EXCEPT ![t] = "worker_blocked"]
              /\ cv_mutex' = Released(cv_mutex, t)
              /\ cv_waiters' = cv_waiters \cup {t}
    /\ UNCHANGED <<mpc, mi, printed, ti, treg, raceVars, ready, got_signal,
                   pcVars, futVars, notThread>>

\* an unblocked waiter re-acquires the mutex before wait(lock) returns.
WorkerWake(t) ==
    /\ tpc[t] = "worker_blocked"
    /\ t \notin cv_waiters
    /\ MutexFree(cv_mutex)
    /\ cv_mutex' = t
    /\ tpc' = [tpc EXCEPT ![t] = "worker_wait"]
    /\ UNCHANGED <<mpc, mi, printed, ti, treg, raceVars, cv_waiters, ready,
                   got_signal, pcVars, futVars, notThread>>

\* lines 137-138: print, return; ~unique_lock releases the mutex.
WorkerPrint(t) ==
    /\ tpc[t] = "worker_print"
    /\ got_signal' = got_signal \cup {t}
    /\ cv_mutex' = Released(cv_mutex, t)
    /\ tpc' = [tpc EXCEPT ![t] = "done"]
    /\ UNCHANGED <<mpc, mi, printed, ti, treg, raceVars, cv_waiters, ready,
                   pcVars, futVars, notThread>>

\* condition_variable::wait may unblock spuriously.
CvSpuriousWake(t) ==
    /\ t \in cv_waiters
    /\ cv_waiters' = cv_waiters \ {t}
    /\ UNCHANGED <<mpc, mi, printed, thrVars, raceVars, cv_mutex, ready,
                   got_signal, pcVars, futVars, notThread>>

\* demo_condition_variable, main thread.
CvReset ==
    /\ mpc = 143
    /\ ready' = FALSE
    /\ got_signal' = {}
    /\ mi' = 0
    /\ mpc' = 146
    /\ UNCHANGED <<printed, thrVars, raceVars, cv_mutex, cv_waiters, pcVars, futVars, notThread>>

\* lines 146-148
CvSpawn ==
    /\ mpc = 146
    /\ IF mi < NumWorkers
         THEN /\ SpawnThread(WorkerOf(mi), "worker_lock")
              /\ mi' = mi + 1
              /\ UNCHANGED mpc
         ELSE /\ mpc' = 154
              /\ UNCHANGED <<mi, thrVars>>
    /\ UNCHANGED <<printed, raceVars, cvVars, pcVars, futVars, notThread>>

\* line 154 (after the print and the sleep of lines 150-151)
CvMainLock ==
    /\ mpc = 154
    /\ MutexFree(cv_mutex)
    /\ cv_mutex' = "main"
    /\ mpc' = 155
    /\ UNCHANGED <<mi, printed, thrVars, raceVars, cv_waiters, ready, got_signal,
                   pcVars, futVars, notThread>>

\* lines 155-156: ready = true; ~lock_guard
CvSetReady ==
    /\ mpc = 155
    /\ ready' = TRUE
    /\ cv_mutex' = Released(cv_mutex, "main")
    /\ mpc' = 157
    /\ UNCHANGED <<mi, printed, thrVars, raceVars, cv_waiters, got_signal,
                   pcVars, futVars, notThread>>

\* line 157 written cv.notify_one()
CvNotifyOneOnly ==
    /\ mpc = 157
    /\ cv_waiters' \in NotifyOne(cv_waiters)
    /\ mi' = 0
    /\ mpc' = 159
    /\ UNCHANGED <<printed, thrVars, raceVars, cv_mutex, ready, got_signal,
                   pcVars, futVars, notThread>>

\* line 157
CvNotifyAll ==
    /\ mpc = 157
    /\ cv_waiters' = NotifyAll(cv_waiters)
    /\ mi' = 0
    /\ mpc' = 159
    /\ UNCHANGED <<printed, thrVars, raceVars, cv_mutex, ready, got_signal,
                   pcVars, futVars, notThread>>

\* lines 159-161
CvJoin ==
    /\ mpc = 159
    /\ IF mi < NumWorkers
         THEN /\ Joinable(WorkerOf(mi))
              /\ mi' = mi + 1
              /\ UNCHANGED mpc
         ELSE /\ mpc' = 211
              /\ mi' = 0
    /\ UNCHANGED <<printed, thrVars, raceVars, cvVars, pcVars, futVars, notThread>>


\* ---------------------------------- 5. producer / consumer (lines 168-221)
\* producer line 174 (loop test) and line 177: std::lock_guard lock(buffer_mutex).
ProducerLock ==
    /\ tpc["prod"] = "prod_lock"
    /\ IF ti["prod"] < Count
         THEN /\ MutexFree(buffer_mutex)
              /\ buffer_mutex' = "prod"
              /\ tpc' = [tpc EXCEPT !["prod"] = "prod_push"]
         ELSE /\ tpc' = [tpc EXCEPT !["prod"] = "prod_done_lock"]
              /\ UNCHANGED buffer_mutex
    /\ UNCHANGED <<mpc, mi, printed, ti, treg, raceVars, cvVars, buffer,
                   buffer_cv_waiters, producer_done, consumed, ub, futVars, notThread>>

\* lines 178-180: buffer.push(i); print; ~lock_guard
ProducerPush ==
    /\ tpc["prod"] = "prod_push"
    /\ buffer' = Append(buffer, ti["prod"])
    /\ buffer_mutex' = Released(buffer_mutex, "prod")
    /\ tpc' = [tpc EXCEPT !["prod"] = "prod_notify"]
    /\ UNCHANGED <<mpc, mi, printed, ti, treg, raceVars, cvVars,
                   buffer_cv_waiters, producer_done, consumed, ub, futVars, notThread>>

\* line 181: buffer_cv.notify_one(); then ++i
ProducerNotify ==
    /\ tpc["prod"] = "prod_notify"
    /\ buffer_cv_waiters' \in NotifyOne(buffer_cv_waiters)
    /\ ti' = [ti EXCEPT !["prod"] = @ + 1]
    /\ tpc' = [tpc EXCEPT !["prod"] = "prod_lock"]
    /\ UNCHANGED <<mpc, mi, printed, treg, raceVars, cvVars, buffer, buffer_mutex,
                   producer_done, consumed, ub, futVars, notThread>>

\* line 185
ProducerDoneLock ==
    /\ tpc["prod"] = "prod_done_lock"
    /\ MutexFree(buffer_mutex)
    /\ buffer_mutex' = "prod"
    /\ tpc' = [tpc EXCEPT !["prod"] = "prod_done_set"]
    /\ UNCHANGED <<mpc, mi, printed, ti, treg, raceVars, cvVars, buffer,
                   buffer_cv_waiters, producer_done, consumed, ub, futVars, notThread>>

\* lines 186-187: producer_done = true; ~lock_guard
ProducerDoneSet ==
    /\ tpc["prod"] = "prod_done_set"
    /\ producer_done' = TRUE
    /\ buffer_mutex' = Released(buffer_mutex, "prod")
    /\ tpc' = [tpc EXCEPT !["prod"] = "prod_notify_all"]
    /\ UNCHANGED <<mpc, mi, printed, ti, treg, raceVars, cvVars, buffer,
                   buffer_cv_waiters, consumed, ub, futVars, notThread>>

\* line 188 written buffer_cv.notify_one()
ProducerNotifyOneAtExit ==
    /\ tpc["prod"] = "prod_notify_all"
    /\ buffer_cv_waiters' \in NotifyOne(buffer_cv_waiters)
    /\ ti' = [ti EXCEPT !["prod"] = 0]
    /\ tpc' = [tpc EXCEPT !["prod"] = "done"]
    /\ UNCHANGED <<mpc, mi, printed, treg, raceVars, cvVars, buffer, buffer_mutex,
                   producer_done, consumed, ub, futVars, notThread>>

\* line 188: buffer_cv.notify_all(); return
ProducerNotifyAll ==
    /\ tpc["prod"] = "prod_notify_all"
    /\ buffer_cv_waiters' = NotifyAll(buffer_cv_waiters)
    /\ ti' = [ti EXCEPT !["prod"] = 0]
    /\ tpc' = [tpc EXCEPT !["prod"] = "done"]
    /\ UNCHANGED <<mpc, mi, printed, treg, raceVars, cvVars, buffer, buffer_mutex,
                   producer_done, consumed, ub, futVars, notThread>>

\* consumer without the unique_lock: the queue is read unprotected.
ConsumerLockNoExclusion(t) ==
    /\ tpc[t] = "cons_lock"
    /\ tpc' = [tpc EXCEPT ![t] = "cons_wait"]
    /\ UNCHANGED <<mpc, mi, printed, ti, treg, raceVars, cvVars, pcVars, futVars, notThread>>

\* consumer line 193: std::unique_lock lock(buffer_mutex)
ConsumerLock(t) ==
    /\ tpc[t] = "cons_lock"
    /\ MutexFree(buffer_mutex)
    /\ buffer_mutex' = t
    /\ tpc' = [tpc EXCEPT ![t] = "cons_wait"]
    /\ UNCHANGED <<mpc, mi, printed, ti, treg, raceVars, cvVars, buffer,
                   buffer_cv_waiters, producer_done, consumed, ub, futVars, notThread>>

\* the predicate of line 194
ConsumerPredicate == buffer # <<>> \/ producer_done

\* line 194: buffer_cv.wait(lock, pred)
ConsumerWait(t) ==
    /\ tpc[t] = "cons_wait"
    /\ IF ConsumerPredicate
         THEN /\ tpc' = [tpc EXCEPT ![t] = "cons_check"]
              /\ UNCHANGED <<buffer_mutex, buffer_cv_waiters>>
         ELSE /\ tpc' = [tpc EXCEPT ![t] = "cons_blocked"]
              /\ buffer_mutex' = Released(buffer_mutex, t)
              /\ buffer_cv_waiters' = buffer_cv_waiters \cup {t}
    /\ UNCHANGED <<mpc, mi, printed, ti, treg, raceVars, cvVars, buffer,
                   producer_done, consumed, ub, futVars, notThread>>

\* an unblocked waiter re-acquires the mutex before wait(lock) returns.
ConsumerWake(t) ==
    /\ tpc[t] = "cons_blocked"
    /\ t \notin buffer_cv_waiters
    /\ MutexFree(buffer_mutex)
    /\ buffer_mutex' = t
    /\ tpc' = [tpc EXCEPT ![t] = "cons_wait"]
    /\ UNCHANGED <<mpc, mi, printed, ti, treg, raceVars, cvVars, buffer,
                   buffer_cv_waiters, producer_done, consumed, ub, futVars, notThread>>

\* condition_variable::wait may unblock spuriously.
BufferCvSpuriousWake(t) ==
    /\ t \in buffer_cv_waiters
    /\ buffer_cv_waiters' = buffer_cv_waiters \ {t}
    /\ UNCHANGED <<mpc, mi, printed, thrVars, raceVars, cvVars, buffer,
                   buffer_mutex, producer_done, consumed, ub, futVars, notThread>>

\* lines 196-198: if (buffer.empty() && producer_done) break; leaving the
\* loop body destroys `lock`, which releases the mutex, and consumer returns.
ConsumerCheck(t) ==
    /\ tpc[t] = "cons_check"
    /\ IF buffer = <<>> /\ producer_done
         THEN /\ buffer_mutex' = Released(buffer_mutex, t)
              /\ treg' = [treg EXCEPT ![t] = 0]
              /\ tpc' = [tpc EXCEPT ![t] = "done"]
         ELSE /\ tpc' = [tpc EXCEPT ![t] = "cons_front"]
              /\ UNCHANGED <<buffer_mutex, treg>>
    /\ UNCHANGED <<mpc, mi, printed, ti, raceVars, cvVars, buffer,
                   buffer_cv_waiters, producer_done, consumed, ub, futVars, notThread>>

\* what front() may return: the first element; on an empty queue the call is
\* undefined and the value read is arbitrary.
Front(q) == IF q = <<>> THEN 0..(Count - 1) ELSE {Head(q)}

\* line 200: int value = buffer.front()
ConsumerFront(t) ==
    /\ tpc[t] = "cons_front"
    /\ \E v \in Front(buffer) : treg' = [treg EXCEPT ![t] = v]
    /\ ub' = (ub \/ buffer = <<>>)
    /\ tpc' = [tpc EXCEPT ![t] = "cons_pop"]
    /\ UNCHANGED <<mpc, mi, printed, ti, raceVars, cvVars, buffer, buffer_mutex,
                   buffer_cv_waiters, producer_done, consumed, futVars, notThread>>

\* pop() removes the first element; on an empty queue the call is undefined.
Pop(q) == IF q = <<>> THEN <<>> ELSE Tail(q)

\* line 201: buffer.pop(); from here on `value` is this consumer's to print.
ConsumerPop(t) ==
    /\ tpc[t] = "cons_pop"
    /\ buffer' = Pop(buffer)
    /\ ub' = (ub \/ buffer = <<>>)
    /\ consumed' = Append(consumed, [by |-> t, value |-> treg[t]])
    /\ tpc' = [tpc EXCEPT ![t] = "cons_unlock"]
    /\ UNCHANGED <<mpc, mi, printed, ti, treg, raceVars, cvVars, buffer_mutex,
                   buffer_cv_waiters, producer_done, futVars, notThread>>

\* lines 202-204: lock.unlock(); print value; next iteration
ConsumerUnlock(t) ==
    /\ tpc[t] = "cons_unlock"
    /\ buffer_mutex' = Released(buffer_mutex, t)
    /\ treg' = [treg EXCEPT ![t] = 0]
    /\ tpc' = [tpc EXCEPT ![t] = "cons_lock"]
    /\ UNCHANGED <<mpc, mi, printed, ti, raceVars, cvVars, buffer,
                   buffer_cv_waiters, producer_done, consumed, ub, futVars, notThread>>

\* demo_producer_consumer, main thread: lines 211-212
PcReset ==
    /\ mpc = 211
    /\ producer_done' = FALSE
    /\ buffer' = <<>>
    /\ mpc' = 214
    /\ UNCHANGED <<mi, printed, thrVars, raceVars, cvVars, buffer_mutex,
                   buffer_cv_waiters, consumed, ub, futVars, notThread>>

\* line 214
PcSpawnProducer ==
    /\ mpc = 214
    /\ SpawnThread("prod", "prod_lock")
    /\ mi' = 1
    /\ mpc' = 215
    /\ UNCHANGED <<printed, raceVars, cvVars, pcVars, futVars, notThread>>

\* lines 215-216
PcSpawnConsumers ==
    /\ mpc = 215
    /\ IF mi <= NumConsumers
         THEN /\ SpawnThread(ConsumerOf(mi), "cons_lock")
              /\ mi' = mi + 1
              /\ UNCHANGED mpc
         ELSE /\ mpc' = 218
              /\ UNCHANGED <<mi, thrVars>>
    /\ UNCHANGED <<printed, raceVars, cvVars, pcVars, futVars, notThread>>

\* line 218
PcJoinProducer ==
    /\ mpc = 218
    /\ Joinable("prod")
    /\ mi' = 1
    /\ mpc' = 219
    /\ UNCHANGED <<printed, thrVars, raceVars, cvVars, pcVars, futVars, notThread>>

\* lines 219-220
PcJoinConsumers ==
    /\ mpc = 219
    /\ IF mi <= NumConsumers
         THEN /\ Joinable(ConsumerOf(mi))
              /\ mi' = mi + 1
              /\ UNCHANGED mpc
         ELSE /\ mpc' = 237
              /\ mi' = 0
    /\ UNCHANGED <<printed, thrVars, raceVars, cvVars, pcVars, futVars, notThread>>

\* ------------------------------------ 6. async and future (lines 227-247)
\* a shared state holds no value until its producer stores one.
Empty == [ready |-> FALSE, value |-> 0]
Stored(v) == [ready |-> TRUE, value |-> v]

\* a get() that does not wait for the shared state
FutureReadyNoWait(f) == TRUE

\* future::get() blocks until the shared state is ready ...
FutureReady(f) == fut[f].ready

\* ... and returns the stored value.
FutureGet(f) == fut[f].value

\* std::async(std::launch::async, compute, 5) / (..., 7): lines 237-238
TaskArg(t) == IF t = "task1" THEN 5 ELSE 7
TaskFuture(t) == IF t = "task1" THEN "f1" ELSE "f2"

\* line 230
compute(x) == x * x

\* compute, line 228: the task has started and printed.
TaskStart(t) ==
    /\ tpc[t] = "task_start"
    /\ tpc' = [tpc EXCEPT ![t] = "task_compute"]
    /\ UNCHANGED <<mpc, mi, printed, ti, treg, raceVars, cvVars, pcVars, futVars, notThread>>

\* lines 229-230: sleep, return x * x: the result is stored in the shared
\* state of the task's future.
TaskReturn(t) ==
    /\ tpc[t] = "task_compute"
    /\ fut' = [fut EXCEPT ![TaskFuture(t)] = Stored(compute(TaskArg(t)))]
    /\ tpc' = [tpc EXCEPT ![t] = "done"]
    /\ UNCHANGED <<mpc, mi, printed, ti, treg, raceVars, cvVars, pcVars, results, notThread>>

\* demo_async_future, main thread: lines 237-238
AsyncLaunch ==
    /\ \/ /\ mpc = 237
          /\ SpawnThread("task1", "task_start")
          /\ fut' = [fut EXCEPT !["f1"] = Empty]
          /\ mpc' = 238
       \/ /\ mpc = 238
          /\ SpawnThread("task2", "task_start")
          /\ fut' = [fut EXCEPT !["f2"] = Empty]
          /\ mpc' = 243
    /\ UNCHANGED <<mi, printed, raceVars, cvVars, pcVars, results, notThread>>

\* lines 243-244: int result1 = f1.get(); int result2 = f2.get();
AsyncGet ==
    /\ \/ /\ mpc = 243
          /\ FutureReady("f1")
          /\ results' = [results EXCEPT !.result1 = FutureGet("f1")]
          /\ mpc' = 244
       \/ /\ mpc = 244
          /\ FutureReady("f2")
          /\ results' = [results EXCEPT !.result2 = FutureGet("f2")]
          /\ mpc' = 246
    /\ UNCHANGED <<mi, printed, thrVars, raceVars, cvVars, pcVars, fut, notThread>>

\* line 246
AsyncPrint ==
    /\ mpc = 246
    /\ printed' = Append(printed, <<246, results.result1, results.result2>>)
    /\ mpc' = 263
    /\ UNCHANGED <<mi, thrVars, raceVars, cvVars, pcVars, futVars, notThread>>

\* ------------------------------------------------ 7. promise (lines 253-273)
\* worker_with_promise line 254
PromiseWorkerStart ==
    /\ tpc["pw"] = "pw_start"
    /\ tpc' = [tpc EXCEPT !["pw"] = "pw_set"]
    /\ UNCHANGED <<mpc, mi, printed, ti, treg, raceVars, cvVars, pcVars, futVars, notThread>>

\* lines 255-256: sleep; prom.set_value(42)
PromiseSetValue ==
    /\ tpc["pw"] = "pw_set"
    /\ fut' = [fut EXCEPT !["prom"] = Stored(PromiseValue)]
    /\ tpc' = [tpc EXCEPT !["pw"] = "pw_print"]
    /\ UNCHANGED <<mpc, mi, printed, ti, treg, raceVars, cvVars, pcVars, results, notThread>>

\* line 257: print, return
PromiseWorkerEnd ==
    /\ tpc["pw"] = "pw_print"
    /\ tpc' = [tpc EXCEPT !["pw"] = "done"]
    /\ UNCHANGED <<mpc, mi, printed, ti, treg, raceVars, cvVars, pcVars, futVars, notThread>>

\* demo_promise, main thread: lines 263-266
PromiseSpawn ==
    /\ mpc = 263
    /\ fut' = [fut EXCEPT !["prom"] = Empty]
    /\ SpawnThread("pw", "pw_start")
    /\ mpc' = 269
    /\ UNCHANGED <<mi, printed, raceVars, cvVars, pcVars, results, notThread>>

\* line 269: int result = fut.get()
PromiseGet ==
    /\ mpc = 269
    /\ FutureReady("prom")
    /\ results' = [results EXCEPT !.result = FutureGet("prom")]
    /\ mpc' = 270
    /\ UNCHANGED <<mi, printed, thrVars, raceVars, cvVars, pcVars, fut, notThread>>

\* line 270
PromisePrint ==
    /\ mpc = 270
    /\ printed' = Append(printed, <<270, results.result>>)
    /\ mpc' = 272
    /\ UNCHANGED <<mi, thrVars, raceVars, cvVars, pcVars, futVars, notThread>>

\* line 272
PromiseJoin ==
    /\ mpc = 272
    /\ Joinable("pw")
    /\ mpc' = 291
    /\ UNCHANGED <<mi, printed, thrVars, raceVars, cvVars, pcVars, futVars, notThread>>


\* ------------------------------------------------ 8. atomics (lines 279-300)
\* ++atomic_counter on std::atomic<int> is one indivisible read-modify-write.
AtomicIncrement(t) ==
    /\ tpc[t] = "atomic_inc"
    /\ IF ti[t] < Iterations
         THEN /\ atomic_counter' = atomic_counter + 1
              /\ ti' = [ti EXCEPT ![t] = @ + 1]
              /\ UNCHANGED tpc
         ELSE /\ tpc' = [tpc EXCEPT ![t] = "done"]
              /\ UNCHANGED <<atomic_counter, ti, mi, cvVars, pcVars, futVars, notThread>>
    /\ UNCHANGED <<mpc, treg, unsafe_counter, safe_counter, counter_mutex,
                   printed, mi, cvVars, pcVars, futVars, notThread>>

AtomicReset ==
    /\ mpc = 291
    /\ atomic_counter' = 0
    /\ mpc' = 293
    /\ UNCHANGED <<unsafe_counter, safe_counter, counter_mutex, printed,
                   mi, cvVars, pcVars, futVars, thrVars, notThread>>

AtomicSpawn ==
    /\ \/ mpc = 293 /\ SpawnThread("at1", "atomic_inc") /\ mpc' = 294
       \/ mpc = 294 /\ SpawnThread("at2", "atomic_inc") /\ mpc' = 296
    /\ UNCHANGED <<printed, mi, cvVars, pcVars, futVars, raceVars, notThread>>

AtomicJoin ==
    /\ \/ mpc = 296 /\ Joinable("at1") /\ mpc' = 297
       \/ mpc = 297 /\ Joinable("at2") /\ mpc' = 299
    /\ UNCHANGED <<printed, mi, cvVars, pcVars, futVars, raceVars, thrVars, notThread>>

AtomicPrint ==
    /\ mpc = 299
    /\ printed' = Append(printed, <<299, atomic_counter>>)
    /\ mpc' = 336
    /\ UNCHANGED <<mi, cvVars, pcVars, futVars, raceVars, thrVars, notThread>>

\* ---------------------------------------------------------- thread_demo
\* the globals as statically initialised (lines 57-59, 130-132, 168-171, 279)
\* and no thread started
StaticInit ==
    /\ tpc = [t \in Threads |-> "idle"]
    /\ ti = [t \in Threads |-> 0]
    /\ treg = [t \in Threads |-> 0]
    /\ unsafe_counter = 0
    /\ safe_counter = 0
    /\ counter_mutex = NoThread
    /\ atomic_counter = 0
    /\ printed = <<>>
    /\ mi = 0
    /\ cv_mutex = NoThread
    /\ cv_waiters = {}
    /\ ready = FALSE
    /\ got_signal = {}
    /\ buffer = <<>>
    /\ buffer_mutex = NoThread
    /\ buffer_cv_waiters = {}
    /\ producer_done = FALSE
    /\ consumed = <<>>
    /\ ub = FALSE
    /\ fut = [f \in {"f1", "f2", "prom"} |-> Empty]
    /\ results = [result1 |-> 0, result2 |-> 0, result |-> 0]

ProducerStep ==
    \/ ProducerLock
    \/ ProducerPush
    \/ ProducerNotify
    \/ ProducerDoneLock
    \/ ProducerDoneSet
    \/ ProducerNotifyAll

PromiseWorkerStep ==
    \/ PromiseWorkerStart
    \/ PromiseSetValue
    \/ PromiseWorkerEnd

RaceStep(t) ==
    \/ UnsafeRead(t)
    \/ UnsafeWrite(t)
    \/ SafeLock(t)
    \/ SafeRead(t)
    \/ SafeWrite(t)
    \/ SafeUnlock(t)
    \/ AtomicIncrement(t)

WorkerStep(t) ==
    \/ WorkerLock(t)
    \/ WorkerWait(t)
    \/ WorkerWake(t)
    \/ WorkerPrint(t)

ConsumerStep(t) ==
    \/ ConsumerLock(t)
    \/ ConsumerWait(t)
    \/ ConsumerWake(t)
    \/ ConsumerCheck(t)
    \/ ConsumerFront(t)
    \/ ConsumerPop(t)
    \/ ConsumerUnlock(t)

TaskStep(t) ==
    \/ TaskStart(t)
    \/ TaskReturn(t)

\* demo_data_race and demo_atomic, main thread
RaceMain ==
    \/ RaceResetUnsafe
    \/ RaceSpawnUnsafe
    \/ RaceJoinUnsafe
    \/ RacePrintUnsafe
    \/ RaceResetSafe
    \/ RaceSpawnSafe
    \/ RaceJoinSafe
    \/ RacePrintSafe
    \/ AtomicReset
    \/ AtomicSpawn
    \/ AtomicJoin
    \/ AtomicPrint

\* demo_condition_variable, main thread
CvMain ==
    \/ CvReset
    \/ CvSpawn
    \/ CvMainLock
    \/ CvSetReady
    \/ CvNotifyAll
    \/ CvJoin

\* demo_producer_consumer, main thread
PcMain ==
    \/ PcReset
    \/ PcSpawnProducer
    \/ PcSpawnConsumers
    \/ PcJoinProducer
    \/ PcJoinConsumers

\* demo_async_future and demo_promise, main thread
FutureMain ==
    \/ AsyncLaunch
    \/ AsyncGet
    \/ AsyncPrint
    \/ PromiseSpawn
    \/ PromiseGet
    \/ PromisePrint
    \/ PromiseJoin

\* a wait that ends without a notification
CvSpurious == \E t \in Workers : CvSpuriousWake(t)
BufferCvSpurious == \E t \in Consumers : BufferCvSpuriousWake(t)

\* =========================================================== move_demo.cpp
\* ----------------------------------------------------- Buffer (18-85)
\* data_ is an address; 0 is nullptr.  name_ plays no part in valid() or size().
Null == 0
NoBuffer == [alive |-> FALSE, data_ |-> Null, size_ |-> 0]

\* new int[n] returns an address not in use (also for n = 0)
NewIn(h) == CHOOSE a \in 1..(Cardinality(h) + 1) :
                a \notin h /\ \A b \in 1..(a - 1) : b \in h

\* delete[] p; deleting nullptr does nothing
Delete(h, p) == h \ {p}

\* Buffer::valid (line 84) and Buffer::size (line 82)
valid(b) == b.data_ # Null
size(b) == b.size_

\* Buffer::Buffer(size_t, name) (lines 26-30)
BufferCtor(n, h) == [alive |-> TRUE, data_ |-> NewIn(h), size_ |-> n]

\* Buffer::Buffer(const Buffer&) (lines 41-45): new int[other.size_]
BufferCopyCtor(other, h) ==
    [alive |-> TRUE, data_ |-> NewIn(h), size_ |-> other.size_]

\* Buffer::Buffer(Buffer&&) (lines 61-62): the new object takes data_ and size_
BufferMoveCtor(other) ==
    [alive |-> TRUE, data_ |-> other.data_, size_ |-> other.size_]

\* a move that forgets `other.data_ = nullptr; other.size_ = 0;`
MovedFromUntouched(other) == other

\* what a move leaves in `other` (lines 63-64 and 75-76)
MovedFrom(other) == [other EXCEPT !.data_ = Null, !.size_ = 0]

Op(o, s, d) == [op |-> o, src |-> s, dst |-> d, was_src |-> bufs[s]]
NoOp == [op |-> "none", src |-> 0, dst |-> 0, was_src |-> NoBuffer]

\* the named Buffer objects of a client; object 0 is sink's parameter
BufIds == 1..NBufs

\* Buffer b(n, name), as in lines 95, 101, 140, 147
BufConstruct(d, n) ==
    /\ ~bufs[d].alive
    /\ bufs' = [bufs EXCEPT ![d] = BufferCtor(n, heap)]
    /\ heap' = heap \cup {NewIn(heap)}
    /\ last' = Op("ctor", d, d)
    /\ UNCHANGED notMove

\* Buffer d = s (line 96)
BufCopyConstruct(d, s) ==
    /\ ~bufs[d].alive /\ bufs[s].alive
    /\ bufs' = [bufs EXCEPT ![d] = BufferCopyCtor(bufs[s], heap)]
    /\ heap' = heap \cup {NewIn(heap)}
    /\ last' = Op("copy_ctor", s, d)
    /\ UNCHANGED notMove

\* Buffer d = std::move(s) (line 102)
BufMoveConstruct(d, s) ==
    /\ ~bufs[d].alive /\ bufs[s].alive
    /\ bufs' = [bufs EXCEPT ![d] = BufferMoveCtor(bufs[s]),
                            ![s] = MovedFrom(bufs[s])]
    /\ last' = Op("move_ctor", s, d)
    /\ UNCHANGED <<heap, notMove>>

\* d = s: Buffer::operator=(const Buffer&) (lines 48-58)
BufCopyAssign(d, s) ==
    /\ bufs[d].alive /\ bufs[s].alive
    /\ IF d # s
         THEN LET freed == Delete(heap, bufs[d].data_)
              IN /\ bufs' = [bufs EXCEPT ![d] = BufferCopyCtor(bufs[s], freed)]
                 /\ heap' = freed \cup {NewIn(freed)}
         ELSE UNCHANGED <<bufs, heap>>
    /\ last' = Op("copy_assign", s, d)
    /\ UNCHANGED notMove

\* d = std::move(s): Buffer::operator=(Buffer&&) (lines 69-80)
BufMoveAssign(d, s) ==
    /\ bufs[d].alive /\ bufs[s].alive
    /\ IF d # s
         THEN /\ heap' = Delete(heap, bufs[d].data_)
              /\ bufs' = [bufs EXCEPT ![d] = BufferMoveCtor(bufs[s]),
                                      ![s] = MovedFrom(bufs[s])]
         ELSE UNCHANGED <<bufs, heap>>
    /\ last' = Op("move_assign", s, d)
    /\ UNCHANGED notMove

\* Buffer::~Buffer (lines 33-38): if (data_) delete[] data_
BufDestroy(d) ==
    /\ bufs[d].alive
    /\ heap' = Delete(heap, bufs[d].data_)
    /\ bufs' = [bufs EXCEPT ![d] = NoBuffer]
    /\ last' = Op("dtor", d, d)
    /\ UNCHANGED notMove

\* sink(b) (line 141): the parameter is copy-constructed from the argument
SinkCopy(s) ==
    /\ ~bufs[0].alive /\ bufs[s].alive
    /\ bufs' = [bufs EXCEPT ![0] = BufferCopyCtor(bufs[s], heap)]
    /\ heap' = heap \cup {NewIn(heap)}
    /\ last' = Op("sink_copy", s, 0)
    /\ UNCHANGED notMove

\* sink(std::move(b)) (line 148): the parameter is move-constructed
SinkMove(s) ==
    /\ ~bufs[0].alive /\ bufs[s].alive
    /\ bufs' = [bufs EXCEPT ![0] = BufferMoveCtor(bufs[s]),
                            ![s] = MovedFrom(bufs[s])]
    /\ last' = Op("sink_move", s, 0)
    /\ UNCHANGED <<heap, notMove>>

\* -------------------------------------------- Buffer under an arbitrary client
MoveIdle ==
    /\ bufs = [k \in 0..NBufs |-> NoBuffer]
    /\ heap = {}
    /\ last = NoOp

\* a client constructs, copies, moves, assigns, passes to sink and destroys
\* Buffers in any order; object 0 lives from sink's call to its return
\* (line 144 constructs it in place, line 134 destroys it).
NextMove ==
    \/ \E d \in 0..NBufs, n \in 0..MaxSize : BufConstruct(d, n)
    \/ \E d \in BufIds, s \in BufIds : BufCopyConstruct(d, s)
    \/ \E d \in BufIds, s \in BufIds : BufMoveConstruct(d, s)
    \/ \E d \in BufIds, s \in BufIds : BufCopyAssign(d, s)
    \/ \E d \in BufIds, s \in BufIds : BufMoveAssign(d, s)
    \/ \E s \in BufIds : SinkCopy(s)
    \/ \E s \in BufIds : SinkMove(s)
    \/ \E d \in 0..NBufs : BufDestroy(d)

\* =========================================================== raii_demo.cpp
\* ------------------------------- shared_ptr / weak_ptr (smart_ptr_demo.cpp)
\* the objects the demos create: the Widget (line 128), Node-1, Node-2
\* (lines 168-169)
WidgetObj == 1
Node1Obj == 2
Node2Obj == 3
\* the Nodes a client creates
ClientObjs == 1..NClientObjs
Objs == {WidgetObj, Node1Obj, Node2Obj} \cup ClientObjs

\* an object make_shared has not created yet: no control block
NoObj == [life |-> "unborn", strong |-> 0, weak |-> 0,
          next |-> Null, prev |-> Null, dtor |-> 0]

\* std::make_shared<T>(...): the object is constructed, one shared_ptr owns it
MakeShared(tab, o) ==
    [tab EXCEPT ![o] = [NoObj EXCEPT !.life = "alive", !.strong = 1]]

\* a shared_ptr copy (lines 132, 135, 171): the strong count goes up by one
AcquireShared(tab, o) ==
    IF o = Null THEN tab ELSE [tab EXCEPT ![o].strong = @ + 1]

\* a weak_ptr that takes the strong count as a shared_ptr does
AcquireWeakOwning(tab, o) ==
    IF o = Null THEN tab ELSE [tab EXCEPT ![o].strong = @ + 1]

\* a weak_ptr made from a shared_ptr (line 172): only the weak count goes up
AcquireWeak(tab, o) ==
    IF o = Null THEN tab ELSE [tab EXCEPT ![o].weak = @ + 1]

\* a weak_ptr is destroyed or re-assigned
ReleaseWeak(tab, o) ==
    IF o = Null THEN tab ELSE [tab EXCEPT ![o].weak = @ - 1]

\* a shared_ptr is destroyed, reset or re-assigned: the strong count goes down
\* by one, and at zero the object is destroyed: ~Node() runs (lines 159-161),
\* then its members die in reverse order of declaration, prev (line 153)
\* before next (line 152), which may in turn destroy the next object.
RECURSIVE ReleaseShared(_, _)
ReleaseShared(tab, o) ==
    IF o = Null THEN tab
    ELSE LET counted == [tab EXCEPT ![o].strong = @ - 1] IN
         IF counted[o].strong > 0 THEN counted
         ELSE LET gone == [counted EXCEPT ![o].life = "destroyed",
                                          ![o].dtor = @ + 1,
                                          ![o].prev = Null,
                                          ![o].next = Null]
              IN ReleaseShared(ReleaseWeak(gone, counted[o].prev),
                               counted[o].next)

\* shared_ptr::use_count()
UseCount(tab, o) == IF o = Null THEN 0 ELSE tab[o].strong

\* weak_ptr::lock(): a shared_ptr to the object unless it has expired
Lock(tab, o) == IF o # Null /\ tab[o].strong > 0 THEN o ELSE Null

\* shared_ptr copy assignment  lhs = rhs  where lhs pointed to `old`
AssignShared(tab, old, new) == ReleaseShared(AcquireShared(tab, new), old)

\* weak_ptr assignment from a shared_ptr  lhs = rhs  where lhs observed `old`
AssignWeak(tab, old, new) == ReleaseWeak(AcquireWeak(tab, new), old)

\* ---------------------------------- 4. demo_shared_ptr_basics (125-143)
\* the shared_ptr locals of the two demos
Locals == {"p1", "p2", "p3", "node1", "node2", "prev"}

\* line 128: auto p1 = std::make_shared<Widget>(100, "Shared-Widget")
SbMake ==
    /\ spc = 128
    /\ sobj' = MakeShared(sobj, WidgetObj)
    /\ slocals' = [slocals EXCEPT !["p1"] = WidgetObj]
    /\ spc' = 129
    /\ UNCHANGED <<sprinted, notSmart>>

\* the lines that print a use_count: the shared_ptr asked, and the next line
PrintLine == [l \in {129, 133, 136, 139, 174, 175} |->
                 CASE l = 129 -> [ptr |-> "p1", then |-> 132]
                   [] l = 133 -> [ptr |-> "p1", then |-> 135]
                   [] l = 136 -> [ptr |-> "p1", then |-> 137]
                   [] l = 139 -> [ptr |-> "p1", then |-> 141]
                   [] l = 174 -> [ptr |-> "node1", then |-> 175]
                   [] l = 175 -> [ptr |-> "node2", then |-> 178]]

\* lines 129, 133, 136, 139, 174, 175: std::cout << p.use_count()
SpPrintUseCount ==
    /\ spc \in DOMAIN PrintLine
    /\ sprinted' = Append(sprinted,
                     <<spc, UseCount(sobj, slocals[PrintLine[spc].ptr])>>)
    /\ spc' = PrintLine[spc].then
    /\ UNCHANGED <<sobj, slocals, notSmart>>

\* line 132: auto p2 = p1;  line 135: auto p3 = p1
SbCopy ==
    /\ spc \in {132, 135}
    /\ sobj' = AcquireShared(sobj, slocals["p1"])
    /\ slocals' = [slocals EXCEPT ![IF spc = 132 THEN "p2" ELSE "p3"] =
                                      slocals["p1"]]
    /\ spc' = spc + 1
    /\ UNCHANGED <<sprinted, notSmart>>

\* line 137: the inner scope ends; p3, then p2, are destroyed
SbScopeExit ==
    /\ spc = 137
    /\ sobj' = ReleaseShared(ReleaseShared(sobj, slocals["p3"]), slocals["p2"])
    /\ slocals' = [slocals EXCEPT !["p3"] = Null, !["p2"] = Null]
    /\ spc' = 139
    /\ UNCHANGED <<sprinted, notSmart>>

\* line 141: p1.reset(); the function returns and main (line 287) calls
\* demo_weak_ptr
SbReset ==
    /\ spc = 141
    /\ sobj' = ReleaseShared(sobj, slocals["p1"])
    /\ slocals' = [slocals EXCEPT !["p1"] = Null]
    /\ spc' = 168
    /\ UNCHANGED <<sprinted, notSmart>>

\* ------------------------------------------- 5. demo_weak_ptr (164-184)
\* lines 168-169: auto node1 = make_shared<Node>("Node-1"); node2 likewise
WpMake ==
    /\ spc \in {168, 169}
    /\ sobj' = MakeShared(sobj, IF spc = 168 THEN Node1Obj ELSE Node2Obj)
    /\ slocals' = IF spc = 168
                    THEN [slocals EXCEPT !["node1"] = Node1Obj]
                    ELSE [slocals EXCEPT !["node2"] = Node2Obj]
    /\ spc' = IF spc = 168 THEN 169 ELSE 171
    /\ UNCHANGED <<sprinted, notSmart>>

\* line 171: node1->next = node2
WpSetNext ==
    /\ spc = 171
    /\ LET n == slocals["node1"] IN
         sobj' = [AssignShared(sobj, sobj[n].next, slocals["node2"])
                     EXCEPT ![n].next = slocals["node2"]]
    /\ spc' = 172
    /\ UNCHANGED <<slocals, sprinted, notSmart>>

\* line 172: node2->prev = node1
WpSetPrev ==
    /\ spc = 172
    /\ LET n == slocals["node2"] IN
         sobj' = [AssignWeak(sobj, sobj[n].prev, slocals["node1"])
                     EXCEPT ![n].prev = slocals["node1"]]
    /\ spc' = 174
    /\ UNCHANGED <<slocals, sprinted, notSmart>>

\* line 178: if (auto prev = node2->prev.lock())
WpLock ==
    /\ spc = 178
    /\ LET got == Lock(sobj, sobj[slocals["node2"]].prev) IN
         /\ sobj' = AcquireShared(sobj, got)
         /\ slocals' = [slocals EXCEPT !["prev"] = got]
         /\ spc' = IF got # Null THEN 179 ELSE 180
    /\ UNCHANGED <<sprinted, notSmart>>

\* lines 179-180: the body prints prev->name; at the end of the if statement
\* prev is destroyed
WpLockExit ==
    /\ spc \in {179, 180}
    /\ IF spc = 179
         THEN /\ spc' = 180
              /\ UNCHANGED <<sobj, slocals>>
         ELSE /\ sobj' = ReleaseShared(sobj, slocals["prev"])
              /\ slocals' = [slocals EXCEPT !["prev"] = Null]
              /\ spc' = 181
    /\ UNCHANGED <<sprinted, notSmart>>

\* line 181: the scope ends; node2, then node1, are destroyed
WpScopeExit ==
    /\ spc = 181
    /\ sobj' = ReleaseShared(ReleaseShared(sobj, slocals["node2"]),
                             slocals["node1"])
    /\ slocals' = [slocals EXCEPT !["node2"] = Null, !["node1"] = Null]
    /\ spc' = 183
    /\ UNCHANGED <<sprinted, notSmart>>

\* line 183: print; the function returns to main (line 288)
WpEnd ==
    /\ spc = 183
    /\ spc' = 288
    /\ UNCHANGED <<sobj, slocals, sprinted, notSmart>>

\* ---------------------- shared_ptr<Node> under an arbitrary client
\* a client with two shared_ptr<Node> locals that creates nodes, copies and
\* resets its pointers, links nodes through next and prev and locks prev, in
\* any order (it dereferences no null pointer).
ClientLocals == {"node1", "node2"}

\* l = std::make_shared<Node>(...)
ClMake(l, o) ==
    /\ spc = 0
    /\ sobj[o].life = "unborn"
    /\ sobj' = ReleaseShared(MakeShared(sobj, o), slocals[l])
    /\ slocals' = [slocals EXCEPT ![l] = o]
    /\ UNCHANGED <<spc, sprinted, notSmart>>

\* l = m
ClCopy(l, m) ==
    /\ spc = 0
    /\ sobj' = AssignShared(sobj, slocals[l], slocals[m])
    /\ slocals' = [slocals EXCEPT ![l] = slocals[m]]
    /\ UNCHANGED <<spc, sprinted, notSmart>>

\* l.reset()
ClReset(l) ==
    /\ spc = 0
    /\ slocals[l] # Null
    /\ sobj' = ReleaseShared(sobj, slocals[l])
    /\ slocals' = [slocals EXCEPT ![l] = Null]
    /\ UNCHANGED <<spc, sprinted, notSmart>>

\* l->next = m
ClSetNext(l, m) ==
    /\ spc = 0
    /\ slocals[l] # Null
    /\ LET n == slocals[l] IN
         sobj' = [AssignShared(sobj, sobj[n].next, slocals[m])
                     EXCEPT ![n].next = slocals[m]]
    /\ UNCHANGED <<spc, slocals, sprinted, notSmart>>

\* l->prev = m
ClSetPrev(l, m) ==
    /\ spc = 0
    /\ slocals[l] # Null
    /\ LET n == slocals[l] IN
         sobj' = [AssignWeak(sobj, sobj[n].prev, slocals[m])
                     EXCEPT ![n].prev = slocals[m]]
    /\ UNCHANGED <<spc, slocals, sprinted, notSmart>>

\* m = l->prev.lock()
ClLock(l, m) ==
    /\ spc = 0
    /\ slocals[l] # Null
    /\ LET got == Lock(sobj, sobj[slocals[l]].prev) IN
         /\ sobj' = AssignShared(sobj, slocals[m], got)
         /\ slocals' = [slocals EXCEPT ![m] = got]
    /\ UNCHANGED <<spc, sprinted, notSmart>>

\* nothing created, every local null, nothing printed
SmartStatic ==
    /\ sobj = [o \in Objs |-> NoObj]
    /\ slocals = [l \in Locals |-> Null]
    /\ sprinted = <<>>

SmartIdle == SmartStatic /\ spc = 0

NextSmart ==
    \/ SbMake
    \/ SpPrintUseCount
    \/ SbCopy
    \/ SbScopeExit
    \/ SbReset
    \/ WpMake
    \/ WpSetNext
    \/ WpSetPrev
    \/ WpLock
    \/ WpLockExit
    \/ WpScopeExit
    \/ WpEnd
    \/ \E l \in ClientLocals, o \in ClientObjs : ClMake(l, o)
    \/ \E l, m \in ClientLocals : ClCopy(l, m)
    \/ \E l \in ClientLocals : ClReset(l)
    \/ \E l, m \in ClientLocals : ClSetNext(l, m)
    \/ \E l, m \in ClientLocals : ClSetPrev(l, m)
    \/ \E l, m \in ClientLocals : ClLock(l, m)

\* ------------------------------------------- calls of the pure functions
\* `call` is the function that was called with its argument, `ret` how the
\* call ended: it returned a value, threw, or its behaviour is undefined.
NoRet == [kind |-> "none", val |-> 0, type |-> "", what |-> ""]
Value(v, type) == [kind |-> "value", val |-> v, type |-> type, what |-> ""]
Thrown(type, what) == [kind |-> "throw", val |-> 0, type |-> type, what |-> what]
\* signed overflow of an int: the behaviour is undefined, whatever results
Undefined == [kind |-> "undefined", val |-> 0, type |-> "int", what |-> ""]

\* the largest int (sizeof(int) is 4 on the platforms the demos build for)
IntMax == 2147483647

\* ------------------------- Fibonacci: constexpr_demo.cpp (49-58), int
\* the loop of lines 52-56, at its test with the locals i, a, b
RECURSIVE fibonacci_loop(_, _, _, _)
fibonacci_loop(i, n, a, b) ==
    IF ~(i <= n) THEN Value(b, "int")
    ELSE IF a > IntMax - b THEN Undefined
    ELSE fibonacci_loop(i + 1, n, b, a + b)

fibonacci(n) ==
    IF n <= 1 THEN Value(n, "int") ELSE fibonacci_loop(2, n, 0, 1)

\* ------------------------- Fibonacci: dp_demo.cpp (36-65), long long
\* A std::vector<long long> is a sequence; v[i] is element i + 1.
At(v, i) == v[i + 1]
Put(v, i, x) == [v EXCEPT ![i + 1] = x]
\* std::vector<long long> memo(n + 1, -1)
FreshMemo(n) == [k \in 1..(n + 1) |-> -1]

\* fib_memo of dp_demo.cpp: the value returned and memo as the call leaves
\* it.  The order in which the two operands of + are evaluated is
\* unspecified: left_first picks it.
RECURSIVE dp_fib_memo(_, _, _)
dp_fib_memo(n, memo, left_first) ==
    IF n <= 1 THEN [val |-> n, memo |-> memo]
    ELSE IF At(memo, n) # -1 THEN [val |-> At(memo, n), memo |-> memo]
    ELSE LET first == dp_fib_memo(IF left_first THEN n - 1 ELSE n - 2,
                                  memo, left_first)
             second == dp_fib_memo(IF left_first THEN n - 2 ELSE n - 1,
                                   first.memo, left_first)
             sum == first.val + second.val
         IN [val |-> sum, memo |-> Put(second.memo, n, sum)]

\* the loop of lines 49-51, at its test
RECURSIVE fib_dp_loop(_, _, _)
fib_dp_loop(i, n, dp) ==
    IF ~(i <= n) THEN dp
    ELSE fib_dp_loop(i + 1, n, Put(dp, i, At(dp, i - 1) + At(dp, i - 2)))

\* fib_dp: dp(n + 1) is value-initialised to zeros
fib_dp(n) ==
    IF n <= 1 THEN n
    ELSE At(fib_dp_loop(2, n, Put(Put([k \in 1..(n + 1) |-> 0], 0, 0), 1, 1)), n)

\* fib_optimized with the loop starting at i = 1
RECURSIVE fib_optimized_loop(_, _, _, _)
fib_optimized_loop(i, n, prev2, prev1) ==
    IF ~(i <= n) THEN prev1
    ELSE fib_optimized_loop(i + 1, n, prev1, prev1 + prev2)

fib_optimized_from_one(n) ==
    IF n <= 1 THEN n ELSE fib_optimized_loop(1, n, 0, 1)

\* fib_optimized (56-65)
fib_optimized(n) ==
    IF n <= 1 THEN n ELSE fib_optimized_loop(2, n, 0, 1)

\* ------------------ Fibonacci: recursion_demo.cpp (43-46, 82-97, 179-183)
RECURSIVE fib_naive(_)
fib_naive(n) ==
    IF n <= 1 THEN n ELSE fib_naive(n - 1) + fib_naive(n - 2)

\* the global std::unordered_map<int, long long> fib_memo (line 82) is a
\* function from its keys to their values
NoMemo == [k \in {} |-> 0]
\* fib_memoized: the value returned and the map as the call leaves it
RECURSIVE fib_memoized(_, _, _)
fib_memoized(n, memo, left_first) ==
    IF n <= 1 THEN [val |-> n, memo |-> memo]
    ELSE IF n \in DOMAIN memo THEN [val |-> memo[n], memo |-> memo]
    ELSE LET first == fib_memoized(IF left_first THEN n - 1 ELSE n - 2,
                                   memo, left_first)
             second == fib_memoized(IF left_first THEN n - 2 ELSE n - 1,
                                    first.memo, left_first)
             sum == first.val + second.val
         IN [val |-> sum,
             memo |-> [k \in DOMAIN second.memo \cup {n} |->
                          IF k = n THEN sum ELSE second.memo[k]]]

\* fib_memo_vec (92-97)
RECURSIVE fib_memo_vec(_, _, _)
fib_memo_vec(n, memo, left_first) ==
    IF n <= 1 THEN [val |-> n, memo |-> memo]
    ELSE IF At(memo, n) # -1 THEN [val |-> At(memo, n), memo |-> memo]
    ELSE LET first == fib_memo_vec(IF left_first THEN n - 1 ELSE n - 2,
                                   memo, left_first)
             second == fib_memo_vec(IF left_first THEN n - 2 ELSE n - 1,
                                    first.memo, left_first)
             sum == first.val + second.val
         IN [val |-> sum, memo |-> Put(second.memo, n, sum)]

\* fib_tail (179-183)
RECURSIVE fib_tail(_, _, _)
fib_tail(n, a, b) ==
    IF n = 0 THEN a
    ELSE IF n = 1 THEN b
    ELSE fib_tail(n - 1, b, a + b)

\* ---------------------------------------------------------- factorial
\* int multiplication  a * b  of positive ints: undefined when it overflows
\* (a result that is already undefined stays so)
MulInt(a, r) ==
    IF r.kind # "value" THEN r
    ELSE IF a > 0 /\ r.val > IntMax \div a THEN Undefined
    ELSE Value(a * r.val, "int")

\* constexpr_demo.cpp (41-47): the loop of lines 43-45, at its test
RECURSIVE constexpr_factorial_loop(_, _, _)
constexpr_factorial_loop(i, n, result) ==
    IF ~(i <= n) THEN result
    ELSE constexpr_factorial_loop(i + 1, n, MulInt(i, result))

constexpr_factorial(n) == constexpr_factorial_loop(2, n, Value(1, "int"))

\* basic_demo.cpp (60-62)
RECURSIVE basic_factorial(_)
basic_factorial(n) ==
    IF n <= 1 THEN Value(1, "int") ELSE MulInt(n, basic_factorial(n - 1))

\* recursion_demo.cpp (37-40), long long
RECURSIVE factorial(_)
factorial(n) == IF n <= 1 THEN 1 ELSE n * factorial(n - 1)

\* recursion_demo.cpp (167-170), long long
RECURSIVE factorial_normal(_)
factorial_normal(n) == IF n <= 1 THEN 1 ELSE n * factorial_normal(n - 1)

\* factorial_tail that returns 1, not the accumulator, at the end
RECURSIVE factorial_tail_drop(_, _)
factorial_tail_drop(n, acc) ==
    IF n <= 1 THEN 1 ELSE factorial_tail_drop(n - 1, n * acc)

\* recursion_demo.cpp (173-176), long long
RECURSIVE factorial_tail(_, _)
factorial_tail(n, acc) ==
    IF n <= 1 THEN acc ELSE factorial_tail(n - 1, n * acc)

\* ------------------------------------ error_demo.cpp: validate_age, divide
\* the bounds of lines 300 and 303
MinAge == 0
MaxAge == 150

\* validate_age that accepts no age of 150
validate_age_strict(age) ==
    IF age < MinAge THEN Thrown("invalid_argument", "negative")
    ELSE IF age >= MaxAge THEN Thrown("invalid_argument", "unreasonable")
    ELSE Value(0, "void")

\* validate_age (299-306); the two messages of lines 301 and 304
validate_age(age) ==
    IF age < MinAge THEN Thrown("invalid_argument", "negative")
    ELSE IF age > MaxAge THEN Thrown("invalid_argument", "unreasonable")
    ELSE Value(0, "void")

\* A double is a NaN or a signed magnitude; +0.0 and -0.0 are two values.
Double(v) == [nan |-> FALSE, neg |-> v < 0, mag |-> IF v < 0 THEN -v ELSE v]
NegZero == [nan |-> FALSE, neg |-> TRUE, mag |-> 0]
NaN == [nan |-> TRUE, neg |-> FALSE, mag |-> 0]
\* b == 0 on doubles: true of both zeros, false of a NaN
EqZero(b) == ~b.nan /\ b.mag = 0
\* a / b for b # 0, on the operands drawn here (every quotient is exact);
\* a NaN operand gives a NaN
Quotient(a, b) ==
    IF a.nan \/ b.nan THEN Value(0, "nan")
    ELSE Value((IF a.neg # b.neg THEN -1 ELSE 1) * (a.mag \div b.mag), "double")

\* divide (21-26)
divide(a, b) ==
    IF EqZero(b) THEN Thrown("invalid_argument", "zero divisor")
    ELSE Quotient(a, b)

\* the base classes of the standard exception types
Bases(type) ==
    CASE type = "invalid_argument" -> {"invalid_argument", "logic_error", "exception"}
      [] type = "runtime_error" -> {"runtime_error", "exception"}
      [] OTHER -> {type}

\* the handlers of demo_exceptions in order (lines 34, 36, 38): the source
\* line and the type caught ("..." catches everything)
Handlers == << [line |-> 34, type |-> "invalid_argument"],
               [line |-> 36, type |-> "exception"],
               [line |-> 38, type |-> "..."] >>

Matches(h, type) == h.type = "..." \/ h.type \in Bases(type)

\* the handler that is entered: the first one, in order, that matches
SelectHandler(type) ==
    LET k == CHOOSE j \in 1..Len(Handlers) :
                 /\ Matches(Handlers[j], type)
                 /\ \A i \in 1..(j - 1) : ~Matches(Handlers[i], type)
    IN Handlers[k].line

\* ------------------------------------------------- the calls a caller makes
\* the arguments drawn: ints from 0 up for the Fibonacci functions (fib_naive
\* takes time exponential in n), a few below 0 for the factorials and around
\* both bounds for validate_age
FibIntArgs == 0..MaxIntN
FibArgs == 0..MaxN
FibNaiveArgs == 0..MaxNaive
\* the factorial arguments whose result is modelled: up to the first one
\* whose factorial does not fit an int (constexpr_factorial is undefined
\* there), and for the long long functions those below it
IntFactArgs == {n \in (-NegArgs)..MaxFactArg :
                   n <= 1 \/ constexpr_factorial(n - 1).kind = "value"}
FactArgs == {n \in IntFactArgs : constexpr_factorial(n).kind = "value"}
AgeArgs == (MinAge - AgeMargin)..(MaxAge + AgeMargin)
Dividends == {Double(10), Double(0), Double(-6), NaN}
Divisors == {Double(0), NegZero, Double(1), Double(2), Double(-2), NaN}

\* a call: the function, its int argument, the evaluation order it is run
\* with, and (divide) its double arguments
Call(fn, arg) == [fn |-> fn, arg |-> arg, left_first |-> TRUE,
                  a |-> Double(0), b |-> Double(0)]
Ordered(c, left_first) == [c EXCEPT !.left_first = left_first]
Calls(fns, args) == {Call(fn, arg) : fn \in fns, arg \in args}
EitherOrder(cs) == {Ordered(c, lf) : c \in cs, lf \in BOOLEAN}

\* the calls a caller may make
PureCalls ==
    Calls({"fibonacci"}, FibIntArgs)
    \cup Calls({"fib_dp", "fib_optimized", "fib_tail"}, FibArgs)
    \cup EitherOrder(Calls({"dp_fib_memo", "fib_memo_vec", "fib_memoized"}, FibArgs))
    \cup Calls({"fib_naive"}, FibNaiveArgs)
    \cup Calls({"constexpr_factorial", "basic_factorial"}, IntFactArgs)
    \cup Calls({"factorial", "factorial_normal", "factorial_tail"}, FactArgs)
    \cup Calls({"validate_age"}, AgeArgs)
    \cup {[Call("divide", 0) EXCEPT !.a = a, !.b = b] :
             a \in Dividends, b \in Divisors}

\* the pending call to fn ends with result
Returns(fn, result) ==
    /\ ppc = 0
    /\ call.fn = fn
    /\ ret = NoRet
    /\ ret' = result
    /\ UNCHANGED <<call, ppc, caught, notPure>>

CallFibonacci ==
    /\ Returns("fibonacci", fibonacci(call.arg))
    /\ UNCHANGED fib_memo

\* dp_demo.cpp: fib_memo(n, memo) with memo(n + 1, -1)
CallDpFibMemo ==
    /\ Returns("dp_fib_memo",
               Value(dp_fib_memo(call.arg, FreshMemo(call.arg),
                                 call.left_first).val, "long long"))
    /\ UNCHANGED fib_memo

CallFibDp ==
    /\ Returns("fib_dp", Value(fib_dp(call.arg), "long long"))
    /\ UNCHANGED fib_memo

CallFibOptimized ==
    /\ Returns("fib_optimized", Value(fib_optimized(call.arg), "long long"))
    /\ UNCHANGED fib_memo

CallFibNaive ==
    /\ Returns("fib_naive", Value(fib_naive(call.arg), "long long"))
    /\ UNCHANGED fib_memo

\* fib_memoized(n) reads and fills the global map, whatever earlier calls
\* left in it
CallFibMemoized ==
    /\ Returns("fib_memoized",
               Value(fib_memoized(call.arg, fib_memo, call.left_first).val,
                     "long long"))
    /\ fib_memo' = fib_memoized(call.arg, fib_memo, call.left_first).memo

\* after a call of fib_memoized the caller calls it again, the map as it is
FibMemoizedAgain(n, left_first) ==
    /\ ppc = 0
    /\ call.fn = "fib_memoized"
    /\ ret # NoRet
    /\ call' = Ordered(Call("fib_memoized", n), left_first)
    /\ ret' = NoRet
    /\ UNCHANGED <<fib_memo, ppc, caught, notPure>>

\* recursion_demo.cpp line 221: fib_memo.clear(), between two calls
FibMemoClear ==
    /\ ppc = 0
    /\ call.fn = "fib_memoized"
    /\ ret # NoRet
    /\ fib_memo' = NoMemo
    /\ UNCHANGED <<call, ret, ppc, caught, notPure>>

CallFibMemoVec ==
    /\ Returns("fib_memo_vec",
               Value(fib_memo_vec(call.arg, FreshMemo(call.arg),
                                  call.left_first).val, "long long"))
    /\ UNCHANGED fib_memo

\* fib_tail(n) with the default arguments a = 0, b = 1 (line 179)
CallFibTail ==
    /\ Returns("fib_tail", Value(fib_tail(call.arg, 0, 1), "long long"))
    /\ UNCHANGED fib_memo

CallConstexprFactorial ==
    /\ Returns("constexpr_factorial", constexpr_factorial(call.arg))
    /\ UNCHANGED fib_memo

CallBasicFactorial ==
    /\ Returns("basic_factorial", basic_factorial(call.arg))
    /\ UNCHANGED fib_memo

CallFactorial ==
    /\ Returns("factorial", Value(factorial(call.arg), "long long"))
    /\ UNCHANGED fib_memo

CallFactorialNormal ==
    /\ Returns("factorial_normal", Value(factorial_normal(call.arg), "long long"))
    /\ UNCHANGED fib_memo

\* factorial_tail(n) with the default argument acc = 1 (line 173)
CallFactorialTail ==
    /\ Returns("factorial_tail", Value(factorial_tail(call.arg, 1), "long long"))
    /\ UNCHANGED fib_memo

CallValidateAge ==
    /\ Returns("validate_age", validate_age(call.arg))
    /\ UNCHANGED fib_memo

CallDivide ==
    /\ Returns("divide", divide(call.a, call.b))
    /\ UNCHANGED fib_memo

\* ------------------------------------ error_demo.cpp: demo_exceptions (28-41)
\* lines 32-33: divide(10, 2), then divide(10, 0), inside the try block
DemoDivide ==
    /\ ppc \in {32, 33}
    /\ ret.kind # "throw"
    /\ LET b == Double(IF ppc = 32 THEN 2 ELSE 0) IN
         /\ call' = [Call("divide", 0) EXCEPT !.a = Double(10), !.b = b]
         /\ ret' = divide(Double(10), b)
    /\ ppc' = IF ret'.kind = "throw" THEN ppc
              ELSE IF ppc = 32 THEN 33 ELSE 41
    /\ UNCHANGED <<caught, fib_memo, notPure>>

\* the exception leaves the try block: the first matching handler is entered
DemoCatch ==
    /\ ppc \in {32, 33}
    /\ ret.kind = "throw"
    /\ caught' = SelectHandler(ret.type)
    /\ ppc' = caught'
    /\ UNCHANGED <<call, ret, fib_memo, notPure>>

\* lines 35, 37, 39: the handler prints and the function returns (line 41)
DemoHandlerEnd ==
    /\ ppc \in {Handlers[k].line : k \in 1..Len(Handlers)}
    /\ ppc' = 41
    /\ UNCHANGED <<call, ret, caught, fib_memo, notPure>>

NoCall == Call("none", 0)

PureStatic ==
    /\ ret = NoRet
    /\ fib_memo = NoMemo
    /\ caught = 0

PureIdle == PureStatic /\ call = NoCall /\ ppc = 0

NextPure ==
    \/ CallFibonacci
    \/ CallDpFibMemo
    \/ CallFibDp
    \/ CallFibOptimized
    \/ CallFibNaive
    \/ CallFibMemoized
    \/ \E n \in FibArgs, lf \in BOOLEAN : FibMemoizedAgain(n, lf)
    \/ FibMemoClear
    \/ CallFibMemoVec
    \/ CallFibTail
    \/ CallConstexprFactorial
    \/ CallBasicFactorial
    \/ CallFactorial
    \/ CallFactorialNormal
    \/ CallFactorialTail
    \/ CallValidateAge
    \/ CallDivide
    \/ DemoDivide
    \/ DemoCatch
    \/ DemoHandlerEnd


\* ------------------------------------------------- 1. FileHandle (19-90)
NoHandle == [file_ |-> "none", mode |-> "-", pos |-> 0]

\* fopen can fail; opening for reading fails when the file does not exist.
fopen(mode) == IF mode = "r" /\ ~file_exists THEN {FALSE} ELSE {TRUE, FALSE}

Event(e, a) == [ev |-> e, arg |-> a]

\* FileHandle::FileHandle (lines 25-31): file_ = fopen(...); a null file_
\* throws std::runtime_error out of the constructor, so no object exists and
\* no destructor will run; control goes to the handler at `handler`.
FileHandleCtor(mode, body, handler) ==
    \E ok \in fopen(mode) :
        IF ok
          THEN /\ fh' = [file_ |-> "open", mode |-> mode, pos |-> 0]
               /\ file_exists' = TRUE
               /\ file_content' = IF mode = "w" THEN <<>> ELSE file_content
               /\ rlog' = Append(rlog, Event("fopen", mode))
               /\ rpc' = body
               /\ UNCHANGED exc
          ELSE /\ exc' = "runtime_error"
               /\ rpc' = handler
               /\ UNCHANGED <<fh, file_exists, file_content, rlog>>

\* a destructor that forgets fclose
FileHandleDtorNoClose ==
    /\ fh' = NoHandle
    /\ UNCHANGED rlog

\* FileHandle::~FileHandle (lines 33-38): fclose only a non-null file_.
FileHandleDtor ==
    /\ fh' = NoHandle
    /\ rlog' = IF fh.file_ = "open" THEN Append(rlog, Event("fclose", fh.mode))
                                    ELSE rlog

\* line 70: FileHandle file("raii_test.txt", "w")
FileOpenWrite ==
    /\ prog = "raii_demo" /\ rpc = 70
    /\ FileHandleCtor("w", 71, 75)
    /\ UNCHANGED <<guards, owned, use_count, prog, notRaii>>

\* lines 71-72: file.write(...) twice (lines 50-54: only when file_ is set)
FileWrite ==
    /\ prog = "raii_demo" /\ rpc \in {71, 72}
    /\ file_content' = IF fh.file_ = "open" THEN Append(file_content, rpc)
                                            ELSE file_content
    /\ rpc' = rpc + 1
    /\ UNCHANGED <<exc, file_exists, fh, guards, owned, use_count, rlog, prog, notRaii>>

\* the end of a try block (line 74, line 85): `file` goes out of scope.
FileScopeExit ==
    /\ prog = "raii_demo" /\ rpc \in {73, 84}
    /\ FileHandleDtor
    /\ rpc' = IF rpc = 73 THEN 80 ELSE 89
    /\ UNCHANGED <<exc, file_exists, file_content, guards, owned, use_count,
                   prog, notRaii>>

\* the handlers of lines 74-76 and 85-87
FileCatch ==
    /\ prog = "raii_demo" /\ rpc \in {75, 86}
    /\ exc # "none"
    /\ exc' = "none"
    /\ rlog' = Append(rlog, Event("catch", rpc))
    /\ rpc' = IF rpc = 75 THEN 80 ELSE 89
    /\ UNCHANGED <<fileVars, guards, owned, use_count, prog, notRaii>>

\* line 80: FileHandle file("raii_test.txt", "r")
FileOpenRead ==
    /\ prog = "raii_demo" /\ rpc = 80
    /\ FileHandleCtor("r", 82, 86)
    /\ UNCHANGED <<guards, owned, use_count, prog, notRaii>>

\* lines 82-84: while (!(line = file.read_line()).empty()) print;
\* read_line (56-63) returns "" at end of file.
FileReadLine ==
    /\ prog = "raii_demo" /\ rpc = 82
    /\ IF fh.file_ = "open" /\ fh.pos < Len(file_content)
         THEN /\ fh' = [fh EXCEPT !.pos = @ + 1]
              /\ UNCHANGED rpc
         ELSE /\ rpc' = 84
              /\ UNCHANGED fh
    /\ UNCHANGED <<exc, file_exists, file_content, guards, owned, use_count, rlog,
                   prog, notRaii>>

\* line 89: print; demo_file_handle returns and main calls demo_scope_guard
FileDemoEnd ==
    /\ prog = "raii_demo" /\ rpc = 89
    /\ rpc' = 122
    /\ UNCHANGED <<exc, fileVars, guards, owned, use_count, rlog, prog, notRaii>>

\* ------------------------------------------------ 2. ScopeGuard (96-141)
Unborn == [life |-> "unborn", active_ |-> FALSE, runs |-> 0, dismissed |-> 0]

\* ScopeGuard::ScopeGuard (lines 102-103): active_(true)
ScopeGuardCtor == [life |-> "alive", active_ |-> TRUE, runs |-> 0, dismissed |-> 0]

\* `active_ = !active_` in place of line 114
ScopeGuardDismissToggles(g) ==
    [g EXCEPT !.active_ = ~g.active_, !.dismissed = @ + 1]

\* ScopeGuard::dismiss (line 114): active_ = false
ScopeGuardDismiss(g) == [g EXCEPT !.active_ = FALSE, !.dismissed = @ + 1]

\* ScopeGuard::~ScopeGuard (lines 105-109): if (active_) cleanup_()
ScopeGuardDtor(g) ==
    [g EXCEPT !.life = "destroyed", !.runs = IF g.active_ THEN @ + 1 ELSE @]

\* demo_scope_guard: lines 122-124 and 134-136 construct a guard
SgConstruct ==
    /\ prog = "raii_demo" /\ rpc \in {122, 134}
    /\ guards' = [guards EXCEPT ![IF rpc = 122 THEN 1 ELSE 2] = ScopeGuardCtor]
    /\ rpc' = IF rpc = 122 THEN 128 ELSE 138
    /\ UNCHANGED <<exc, fileVars, owned, use_count, rlog, prog, notRaii>>

\* line 138: guard.dismiss()
SgDismiss ==
    /\ prog = "raii_demo" /\ rpc = 138
    /\ guards' = [guards EXCEPT ![2] = ScopeGuardDismiss(@)]
    /\ rpc' = 139
    /\ UNCHANGED <<exc, fileVars, owned, use_count, rlog, prog, notRaii>>

\* lines 128 and 139: the guard goes out of scope
SgScopeExit ==
    /\ prog = "raii_demo" /\ rpc \in {128, 139}
    /\ LET k == IF rpc = 128 THEN 1 ELSE 2
           g == ScopeGuardDtor(guards[k])
       IN /\ guards' = [guards EXCEPT ![k] = g]
          /\ rlog' = IF g.runs > guards[k].runs
                       THEN Append(rlog, Event("cleanup", k)) ELSE rlog
    /\ rpc' = IF rpc = 128 THEN 134 ELSE 174
    /\ UNCHANGED <<exc, fileVars, owned, use_count, prog, notRaii>>

\* --------------------------------------------------- 3. Timer (149-186)
\* two scopes, each with a Timer that prints at construction and destruction
TimerDemo ==
    /\ prog = "raii_demo" /\ rpc \in {174, 183}
    /\ rpc' = IF rpc = 174 THEN 183 ELSE 214
    /\ UNCHANGED <<exc, fileVars, guards, owned, use_count, rlog, prog, notRaii>>

\* ---------------------------------------- 4. smart pointers (192-237)
\* std::make_unique<Resource>(id): the Resource is constructed (196-198) and
\* a unique_ptr local owns it.
MakeUnique(id) ==
    /\ owned' = Append(owned, id)
    /\ rlog' = Append(rlog, Event("create", id))

\* the destroy events of leaving a scope: locals die in reverse order of
\* construction, and ~unique_ptr deletes what it owns (Resource::~Resource).
RECURSIVE DestroyEvents(_)
DestroyEvents(stack) ==
    IF stack = <<>> THEN <<>>
    ELSE <<Event("destroy", stack[Len(stack)])>>
         \o DestroyEvents(SubSeq(stack, 1, Len(stack) - 1))

\* a scope whose unique_ptr locals leak what they own
LeakingScopeExit ==
    /\ owned' = <<>>
    /\ UNCHANGED rlog

\* the unique_ptr locals of the scope being left are destroyed
UniqueScopeExit ==
    /\ rlog' = rlog \o DestroyEvents(owned)
    /\ owned' = <<>>

\* lines 214-218
SpMakeUnique ==
    /\ prog = "raii_demo" /\ rpc \in {214, 217}
    /\ MakeUnique(IF rpc = 214 THEN 1 ELSE 2)
    /\ rpc' = IF rpc = 214 THEN 217 ELSE 221
    /\ UNCHANGED <<exc, fileVars, guards, use_count, prog, notRaii>>

\* line 221
SpUniqueScopeExit ==
    /\ prog = "raii_demo" /\ rpc = 221
    /\ UniqueScopeExit
    /\ rpc' = 226
    /\ UNCHANGED <<exc, fileVars, guards, use_count, prog, notRaii>>

\* line 226: make_shared<Resource>(3); line 230: auto p4 = p3
SpShareAcquire ==
    /\ prog = "raii_demo" /\ rpc \in {226, 230}
    /\ use_count' = use_count + 1
    /\ rlog' = IF rpc = 226 THEN Append(rlog, Event("create", 3)) ELSE rlog
    /\ rpc' = IF rpc = 226 THEN 230 ELSE 232
    /\ UNCHANGED <<exc, fileVars, guards, owned, prog, notRaii>>

\* lines 232 and 235: a shared_ptr dies; the last one deletes the Resource
SpShareRelease ==
    /\ prog = "raii_demo" /\ rpc \in {232, 235}
    /\ use_count' = use_count - 1
    /\ rlog' = IF use_count = 1 THEN Append(rlog, Event("destroy", 3)) ELSE rlog
    /\ rpc' = IF rpc = 232 THEN 235 ELSE 254
    /\ UNCHANGED <<exc, fileVars, guards, owned, prog, notRaii>>

\* ------------------------ 5. exception safety (raii_demo 243-263,
\*                             error_demo 254-278)
\* the lines of the try block in either program
TryLine == [raii_demo  |-> [make |-> 254, call |-> 256, handler |-> 259,
                            after |-> 262, id |-> 100],
            error_demo |-> [make |-> 271, call |-> 272, handler |-> 275,
                            after |-> 277, id |-> 0]]

ExcProgs == {"raii_demo", "error_demo"}

\* risky_operation (raii_demo 243-248, error_demo 260-264): whether it throws
risky_operation(should_throw) == should_throw

\* raii_demo line 254 / error_demo line 271: auto resource = make_unique<Resource>(...)
ExcMake ==
    /\ prog \in ExcProgs /\ rpc = TryLine[prog].make
    /\ MakeUnique(TryLine[prog].id)
    /\ rpc' = TryLine[prog].call
    /\ UNCHANGED <<exc, fileVars, guards, use_count, prog, notRaii>>

\* raii_demo lines 256-257 / error_demo line 272: risky_operation(true).
\* If it throws, the exception is in flight and the rest of the try block is
\* skipped; if it returned, the block would run on to its end (raii_demo
\* prints line 257) and the locals would die there.
ExcCall ==
    /\ prog \in ExcProgs /\ rpc = TryLine[prog].call /\ exc = "none"
    /\ IF risky_operation(TRUE)
         THEN /\ exc' = "runtime_error"
              /\ UNCHANGED <<rpc, owned, rlog>>
         ELSE /\ rlog' = Append(rlog, Event("after_call", rpc + 1))
                          \o DestroyEvents(owned)
              /\ owned' = <<>>
              /\ rpc' = TryLine[prog].after
              /\ UNCHANGED exc
    /\ UNCHANGED <<fileVars, guards, use_count, prog, notRaii>>

\* stack unwinding: before the handler is entered the locals of the try block
\* are destroyed.
ExcUnwind ==
    /\ prog \in ExcProgs /\ rpc = TryLine[prog].call /\ exc # "none"
    /\ UniqueScopeExit
    /\ rpc' = TryLine[prog].handler
    /\ UNCHANGED <<exc, fileVars, guards, use_count, prog, notRaii>>

\* raii_demo lines 258-260 / error_demo lines 274-276: catch (const std::exception&)
ExcHandler ==
    /\ prog \in ExcProgs /\ rpc = TryLine[prog].handler
    /\ exc' = "none"
    /\ rlog' = Append(rlog, Event("catch", rpc))
    /\ rpc' = TryLine[prog].after
    /\ UNCHANGED <<fileVars, guards, owned, use_count, prog, notRaii>>

\* raii_demo line 262: print; back in main, line 281
ExcDemoEnd ==
    /\ prog = "raii_demo" /\ rpc = 262
    /\ rpc' = 281
    /\ UNCHANGED <<exc, fileVars, guards, owned, use_count, rlog, prog, notRaii>>

\* main line 281: std::remove("raii_test.txt"); line 287: return 0.
\* Whether a file that is still open can be removed depends on the platform.
RemoveFile ==
    /\ prog = "raii_demo" /\ rpc = 281
    /\ file_exists' \in (IF fh.file_ = "open" THEN {file_exists, FALSE} ELSE {FALSE})
    /\ file_content' = IF file_exists' THEN file_content ELSE <<>>
    /\ rlog' = Append(rlog, Event("remove", 0))
    /\ rpc' = 287
    /\ UNCHANGED <<exc, fh, guards, owned, use_count, prog, notRaii>>

\* ---------------------------------------------------------- raii_demo
\* the other programs' variables while this one is not running
ThreadIdle == StaticInit /\ mpc = 0

RaiiStatic ==
    /\ exc = "none"
    /\ fh = NoHandle
    /\ guards = [k \in 1..NGuards |-> Unborn]
    /\ owned = <<>>
    /\ use_count = 0
    /\ rlog = <<>>

RaiiIdle ==
    /\ RaiiStatic
    /\ rpc = 0
    /\ file_exists = FALSE
    /\ file_content = <<>>

\* what a raii_test.txt left in the working directory may hold
OldContents == {[k \in 1..n |-> 0] : n \in 0..MaxOldLines}

\* main() of raii_demo.cpp starts at demo_file_handle (line 274 -> 70), with
\* or without a raii_test.txt already there; demo_exception_safety of
\* error_demo.cpp starts at its try block (line 271).
InitRaii ==
    /\ ThreadIdle
    /\ MoveIdle
    /\ SmartIdle
    /\ PureIdle
    /\ RaiiStatic
    /\ prog \in ExcProgs
    /\ rpc = IF prog = "raii_demo" THEN 70 ELSE TryLine[prog].make
    /\ file_exists \in (IF prog = "raii_demo" THEN BOOLEAN ELSE {FALSE})
    /\ file_content \in (IF file_exists THEN OldContents ELSE {<<>>})

NextRaii ==
    \/ FileOpenWrite
    \/ FileWrite
    \/ FileScopeExit
    \/ FileCatch
    \/ FileOpenRead
    \/ FileReadLine
    \/ FileDemoEnd
    \/ SgConstruct
    \/ SgDismiss
    \/ SgScopeExit
    \/ TimerDemo
    \/ SpMakeUnique
    \/ SpUniqueScopeExit
    \/ SpShareAcquire
    \/ SpShareRelease
    \/ ExcMake
    \/ ExcCall
    \/ ExcUnwind
    \/ ExcHandler
    \/ ExcDemoEnd
    \/ RemoveFile

SpecRaii == InitRaii /\ [][NextRaii]_vars

\* -------------------------------------- ScopeGuard under an arbitrary client
\* a client constructs guards, calls dismiss() any number of times while a
\* guard is alive, and lets guards go out of scope, in any order.
GuardConstruct(k) ==
    /\ guards[k].life = "unborn"
    /\ guards' = [guards EXCEPT ![k] = ScopeGuardCtor]
    /\ UNCHANGED <<prog, rpc, exc, fileVars, owned, use_count, rlog, notRaii>>

GuardDismiss(k) ==
    /\ guards[k].life = "alive"
    /\ guards[k].dismissed < MaxDismiss
    /\ guards' = [guards EXCEPT ![k] = ScopeGuardDismiss(@)]
    /\ UNCHANGED <<prog, rpc, exc, fileVars, owned, use_count, rlog, notRaii>>

GuardDestroy(k) ==
    /\ guards[k].life = "alive"
    /\ guards' = [guards EXCEPT ![k] = ScopeGuardDtor(@)]
    /\ UNCHANGED <<prog, rpc, exc, fileVars, owned, use_count, rlog, notRaii>>

InitGuard ==
    /\ ThreadIdle
    /\ MoveIdle
    /\ SmartIdle
    /\ PureIdle
    /\ RaiiIdle
    /\ prog = "ScopeGuard"

NextGuard ==
    \E k \in 1..NGuards : GuardConstruct(k) \/ GuardDismiss(k) \/ GuardDestroy(k)

SpecGuard == InitGuard /\ [][NextGuard]_vars

\* ---------------------------------------------------------- thread_demo
\* main() reaches demo_data_race (line 323) with no thread left running:
\* demo_create_threads joins its three threads and writes no global.
ThreadInit ==
    /\ StaticInit
    /\ mpc = 80

Init ==
    /\ ThreadInit
    /\ RaiiIdle
    /\ MoveIdle
    /\ SmartIdle
    /\ PureIdle
    /\ prog = "thread_demo"

\* main() of thread_demo.cpp, lines 323-329, and the threads it starts
Next ==
    \/ RaceMain
    \/ CvMain
    \/ PcMain
    \/ FutureMain
    \/ \E t \in Threads : RaceStep(t) \/ WorkerStep(t) \/ ConsumerStep(t) \/ TaskStep(t)
    \/ ProducerStep
    \/ PromiseWorkerStep
    \/ CvSpurious
    \/ BufferCvSpurious

Spec == Init /\ [][Next]_vars

\* Fair scheduling: a thread that can take a step, or that can again and again
\* take one (a lock it is queued for keeps being released), eventually takes
\* it.  Spurious wake-ups are owed to nobody and get no fairness.

\* demo_condition_variable on its own (main() line 325): it sets `ready`
\* itself (line 143) and reads nothing the earlier demos wrote.
InitCv ==
    /\ StaticInit
    /\ mpc = 143
    /\ RaiiIdle
    /\ MoveIdle
    /\ SmartIdle
    /\ PureIdle
    /\ prog = "thread_demo"

NextCv ==
    \/ CvMain
    \/ \E t \in Workers : WorkerStep(t)
    \/ CvSpurious

FairSpecCv ==
    /\ InitCv /\ [][NextCv]_vars
    /\ SF_vars(CvMain)
    /\ \A t \in Workers : SF_vars(WorkerStep(t))

\* demo_producer_consumer on its own (main() line 326): it resets
\* producer_done and buffer itself (lines 211-212).
InitPc ==
    /\ StaticInit
    /\ mpc = 211
    /\ RaiiIdle
    /\ MoveIdle
    /\ SmartIdle
    /\ PureIdle
    /\ prog = "thread_demo"

NextPc ==
    \/ PcMain
    \/ ProducerStep
    \/ \E t \in Consumers : ConsumerStep(t)
    \/ BufferCvSpurious

FairSpecPc ==
    /\ InitPc /\ [][NextPc]_vars
    /\ SF_vars(PcMain)
    /\ SF_vars(ProducerStep)
    /\ \A t \in Consumers : SF_vars(ConsumerStep(t))

\* ---------------------------------------------------------- move_demo
InitMove ==
    /\ ThreadIdle
    /\ RaiiIdle
    /\ MoveIdle
    /\ SmartIdle
    /\ PureIdle
    /\ prog = "move_demo"

SpecMove == InitMove /\ [][NextMove]_vars

\* ------------------------------------------------------ smart_ptr_demo
\* main() of smart_ptr_demo.cpp from demo_shared_ptr_basics (line 286 -> 128)
\* to the return of demo_weak_ptr, or an arbitrary client (spc = 0)
InitSmart ==
    /\ ThreadIdle
    /\ RaiiIdle
    /\ MoveIdle
    /\ PureIdle
    /\ SmartStatic
    /\ prog = "smart_ptr_demo"
    /\ spc \in {128, 0}

SpecSmart == InitSmart /\ [][NextSmart]_vars

\* ------------------------------------------------- the pure functions
\* a caller about to call one of the Fibonacci, factorial and validating
\* functions (ppc = 0), or demo_exceptions of error_demo.cpp at its try block
InitPure ==
    /\ ThreadIdle
    /\ RaiiIdle
    /\ MoveIdle
    /\ SmartIdle
    /\ PureStatic
    /\ prog = "pure"
    /\ ppc \in {0, 32}
    /\ call \in (IF ppc = 0 THEN PureCalls ELSE {NoCall})

SpecPure == InitPure /\ [][NextPure]_vars

\* ------------------------------------------------------------ properties
ProducerConsumerDone ==
    /\ tpc["prod"] = "done"
    /\ \A c \in Consumers : tpc[c] = "done"

\* the values dequeued so far followed by the values still queued
Dequeued == [k \in 1..Len(consumed) |-> consumed[k].value]
Through == Dequeued \o buffer

\* C1: in the producer/consumer demo, under every interleaving, no consumer
\* calls front() or pop() on an empty buffer; the values dequeued so far,
\* followed by the values still queued, are exactly 0, 1, 2, ... in the order
\* the producer pushed them (so no value is lost, none is dequeued twice, and
\* the dequeue order is the push order); and once the three threads have
\* returned all of 0..count-1 have been dequeued.
C1_ProducerConsumerSafe ==
    /\ ~ub
    /\ \A c \in Consumers : tpc[c] \in {"cons_front", "cons_pop"} => buffer # <<>>
    /\ \A k \in 1..Len(Through) : Through[k] = k - 1
    /\ tpc["prod"] \in {"prod_lock", "prod_push"} => Len(Through) = ti["prod"]
    /\ ProducerConsumerDone => Len(consumed) = Count /\ buffer = <<>>

\* the demo has ended and each consumer dequeued at least one value
C1_Witness ==
    /\ ProducerConsumerDone
    /\ Len(consumed) = Count
    /\ \A c \in Consumers : \E k \in 1..Len(consumed) : consumed[k].by = c

\* C2: under fair scheduling demo_producer_consumer terminates (the producer
\* and both consumers return and are joined), and whenever the three threads
\* have returned the buffer is empty and producer_done is true.
C2_ProducerConsumerTerminates ==
    /\ (mpc = 211) ~> (mpc = 237)
    /\ [](ProducerConsumerDone => buffer = <<>> /\ producer_done)

\* the demo has run to its end: producer_done is set, the producer and both
\* consumers have returned and main has joined all three
C2_Witness ==
    /\ mpc = 237
    /\ ProducerConsumerDone
    /\ producer_done

\* C3: two threads each performing `iterations` synchronised increments lose
\* none: after both joins safe_counter (mutex) and atomic_counter (atomic)
\* equal 2 * iterations, and that is what is printed.
C3_SynchronizedCountersExact ==
    /\ mpc = 93 => safe_counter = 2 * Iterations
    /\ mpc = 299 => atomic_counter = 2 * Iterations
    /\ \A k \in 1..Len(printed) :
          printed[k][1] \in {93, 299} => printed[k][2] = 2 * Iterations

\* both counters have been printed
C3_Witness ==
    /\ mpc = 336
    /\ \E k \in 1..Len(printed) : printed[k] = <<93, 2 * Iterations>>
    /\ \E k \in 1..Len(printed) : printed[k] = <<299, 2 * Iterations>>

\* the least value two racing threads of n unsynchronised increments can leave
MinUnsafe == IF Iterations < 2 THEN Iterations ELSE 2

\* C4: with ++unsafe_counter a separate read and write, two concurrent
\* increment_unsafe(iterations) threads can only lose updates: after both
\* joins the counter is at most the expected 2 * iterations and at least
\* MinUnsafe; the witness is a run that ends below 2 * iterations.
C4_UnsafeCounterBounds ==
    mpc = 85 => /\ unsafe_counter <= 2 * Iterations
                /\ unsafe_counter >= MinUnsafe

\* an update was lost: the joined threads left less than 2 * iterations
C4_Witness ==
    /\ mpc = 85
    /\ unsafe_counter < 2 * Iterations

\* C5: no worker gets past cv.wait before main has set ready = true, and
\* under fair scheduling the demo ends with all three workers past the wait
\* and joined.
C5_WorkersWaitForReady ==
    /\ [](\A w \in Workers :
            (tpc[w] = "worker_print" \/ w \in got_signal) => ready)
    /\ (mpc = 143) ~> (mpc = 211 /\ got_signal = Workers)

\* notify_all has been issued and a worker has not yet locked cv_mutex for
\* the first time
C5_Witness ==
    /\ mpc = 159
    /\ \E w \in Workers : tpc[w] = "worker_lock"

\* C6: a get() returns only once its producer has stored the value, and
\* returns that value: past line 269 the promise worker has executed
\* set_value(42) and result is 42; past line 243 task 1 has returned and
\* result1 is 25; past line 244 task 2 has returned and result2 is 49.
C6_FutureGetAfterSet ==
    /\ mpc > 243 => tpc["task1"] = "done" /\ results.result1 = 25
    /\ mpc > 244 => tpc["task2"] = "done" /\ results.result2 = 49
    /\ mpc > 269 => /\ tpc["pw"] \in {"pw_print", "done"}
                    /\ results.result = PromiseValue

\* fut.get() has returned 42 while the worker is still before its last print
C6_Witness ==
    /\ mpc = 270
    /\ tpc["pw"] = "pw_print"
    /\ results = [result1 |-> 25, result2 |-> 49, result |-> 42]

\* the fopen / fclose events so far, in order
FileEvents == SelectSeq(rlog, LAMBDA e : e.ev \in {"fopen", "fclose"})
NumEvents(e) == Cardinality({k \in 1..Len(rlog) : rlog[k].ev = e})
OpenHandles == NumEvents("fopen") - NumEvents("fclose")

C8_ScopeGuardCleanup ==
    \A k \in 1..NGuards :
        /\ guards[k].life # "destroyed" => guards[k].runs = 0
        /\ guards[k].life = "destroyed" =>
              guards[k].runs = (IF guards[k].dismissed = 0 THEN 1 ELSE 0)

\* one guard destroyed undismissed (cleanup ran once), another destroyed
\* after two or more dismiss() calls (cleanup never ran)
C8_Witness ==
    \E j, k \in 1..NGuards :
        /\ guards[j].life = "destroyed" /\ guards[j].dismissed = 0
        /\ guards[j].runs = 1
        /\ guards[k].life = "destroyed" /\ guards[k].dismissed >= 2
        /\ guards[k].runs = 0

\* the positions in rlog of an event
Positions(e) == {k \in 1..Len(rlog) : rlog[k].ev = e.ev /\ rlog[k].arg = e.arg}
TryResource == Event("destroy", TryLine[prog].id)
TryCatch == Event("catch", TryLine[prog].handler)

\* C9: when risky_operation(true) throws inside the try block, the Resource
\* the unique_ptr local owns is destroyed exactly once, before the handler's
\* body runs (it is already destroyed when control stands at the handler and
\* its destroy event precedes the catch event), and the statement after the
\* throwing call is never executed.
C9_ExceptionReleasesResource ==
    prog \in ExcProgs =>
      /\ Cardinality(Positions(TryResource)) <= 1
      /\ rpc = TryLine[prog].handler =>
            Cardinality(Positions(TryResource)) = 1 /\ owned = <<>>
      /\ \A c \in Positions(TryCatch) : \E d \in Positions(TryResource) : d < c
      /\ \A k \in 1..Len(rlog) : rlog[k].ev # "after_call"

\* raii_demo: the exception was thrown and control stands at the handler body
\* with Resource #100 already destroyed
C9_Witness ==
    /\ prog = "raii_demo"
    /\ rpc = TryLine[prog].handler
    /\ exc = "runtime_error"
    /\ Cardinality(Positions(Event("create", 100))) = 1
    /\ Cardinality(Positions(Event("destroy", 100))) = 1

MoveOps == {"move_ctor", "move_assign", "sink_move"}
CopyOps == {"copy_ctor", "copy_assign", "sink_copy"}

\* what C10 says of a move between two objects
MovePost ==
    /\ ~valid(bufs[last.src]) /\ size(bufs[last.src]) = 0
    /\ valid(bufs[last.dst]) /\ size(bufs[last.dst]) = size(last.was_src)

\* what C10 says of a copy
CopyPost ==
    /\ valid(bufs[last.src]) /\ valid(bufs[last.dst])
    /\ size(bufs[last.dst]) = size(bufs[last.src])
    /\ bufs[last.src] = last.was_src

\* C10 as stated: after any move (move construction, move assignment from a
\* different object, sink(std::move(b))) the source is invalid with size 0 and
\* the destination is valid with the source's former size; after a copy from
\* a valid Buffer both are valid with the same size and the source is
\* unchanged.
C10_AsStated ==
    /\ (last.op \in MoveOps /\ last.src # last.dst) => MovePost
    /\ (last.op \in CopyOps /\ valid(last.was_src)) => CopyPost

\* C10, amended: the same, for a move from a valid Buffer.  (Moving from a
\* moved-from Buffer hands over nullptr: the destination is not valid.)
C10_MoveFromValid ==
    /\ (last.op \in MoveOps /\ last.src # last.dst /\ valid(last.was_src))
          => MovePost
    /\ (last.op \in CopyOps /\ valid(last.was_src)) => CopyPost

\* a valid Buffer of size > 0 has just been move-assigned to another one
C10_Witness ==
    /\ last.op = "move_assign"
    /\ last.src # last.dst
    /\ valid(last.was_src) /\ size(last.was_src) > 0
    /\ MovePost

\* the shared_ptrs that point to an object: locals, and next members of the
\* objects that are alive
Owners(o) == Cardinality({l \in Locals : slocals[l] = o})
             + Cardinality({n \in Objs : sobj[n].next = o})
\* the weak_ptrs that observe an object: prev members
Observers(o) == Cardinality({n \in Objs : sobj[n].prev = o})

RECURSIVE FibPair(_)
FibPair(n) ==
    IF n = 0 THEN <<1, 0>>
    ELSE LET p == FibPair(n - 1) IN <<p[2], p[1] + p[2]>>
F(n) == FibPair(n)[2]
\* F(n) fits an int
RECURSIVE FibFitsInt(_)
FibFitsInt(n) ==
    \/ n <= 1
    \/ FibFitsInt(n - 1) /\ F(n - 2) <= IntMax - F(n - 1)

FibFns == {"fibonacci", "dp_fib_memo", "fib_dp", "fib_optimized", "fib_naive",
           "fib_memoized", "fib_memo_vec", "fib_tail"}

\* C12: every Fibonacci implementation, called with an n >= 0 whose result
\* fits the return type, returns F(n) (F(0) = 0, F(1) = 1,
\* F(n) = F(n - 1) + F(n - 2)): fibonacci, fib_dp, fib_optimized, fib_memo and
\* fib_memo_vec on a memo of n + 1 entries -1, fib_naive, fib_memoized
\* whatever earlier calls left in its map (which only ever holds F(k) at k),
\* and fib_tail; for n = 10 the value is 55.
C12_FibonacciImplementationsAgree ==
    /\ (/\ call.fn \in FibFns
        /\ ret # NoRet
        /\ call.fn = "fibonacci" => FibFitsInt(call.arg))
       => /\ ret.kind = "value"
          /\ ret.val = F(call.arg)
          /\ call.arg = 10 => ret.val = 55
    /\ \A k \in DOMAIN fib_memo : fib_memo[k] = F(k)

\* fib_memoized(10) has returned 55 out of a map an earlier call filled
\* beyond 10
C12_Witness ==
    /\ call.fn = "fib_memoized" /\ call.arg = 10
    /\ ret = Value(55, "long long")
    /\ MaxN \in DOMAIN fib_memo

\* n! for n >= 0
RECURSIVE NFactorial(_)
NFactorial(n) == IF n = 0 THEN 1 ELSE n * NFactorial(n - 1)

FactFns == {"constexpr_factorial", "basic_factorial", "factorial",
            "factorial_normal", "factorial_tail"}

\* C13: each of the five factorial implementations returns n! for every n
\* in 0..12 and 1 for every n <= 1, negative n included; for n = 5 the value
\* is 120.
C13_FactorialCorrect ==
    (call.fn \in FactFns /\ ret # NoRet) =>
        /\ call.arg \in 0..12 =>
              ret.kind = "value" /\ ret.val = NFactorial(call.arg)
        /\ call.arg <= 1 => ret.kind = "value" /\ ret.val = 1
        /\ call.arg = 5 => ret.val = 120

\* factorial_tail(12) has returned 12! = 479001600
C13_Witness ==
    /\ call.fn = "factorial_tail" /\ call.arg = 12
    /\ ret = Value(479001600, "long long")

\* C14: validate_age(age) throws std::invalid_argument exactly when age < 0
\* or age > 150, with one message below 0 and another above 150, and returns
\* normally for every age in 0..150; divide(a, b) throws
\* std::invalid_argument exactly when b == 0; and in demo_exceptions the
\* exception of divide(10, 0) enters the invalid_argument handler (line 34),
\* never the std::exception handler (line 36) nor catch (...) (line 38).
C14_ErrorsExactlyOnInvalidInput ==
    /\ (call.fn = "validate_age" /\ ret # NoRet) =>
          /\ ret.kind = "throw" <=> (call.arg < 0 \/ call.arg > 150)
          /\ ret.kind = "throw" => ret.type = "invalid_argument"
          /\ call.arg < 0 => ret.what = "negative"
          /\ call.arg > 150 => ret.what = "unreasonable"
          /\ call.arg \in 0..150 => ret.kind = "value"
    /\ (call.fn = "divide" /\ ret # NoRet) =>
          /\ ret.kind = "throw" <=> EqZero(call.b)
          /\ ret.kind = "throw" => ret.type = "invalid_argument"
          /\ ret.kind \in {"throw", "value"}
    /\ caught \in {0, 34}
    /\ ppc \notin {36, 38}
    /\ ppc = 41 => caught = 34 /\ ret.kind = "throw" /\ call.b = Double(0)

\* validate_age(151) has thrown invalid_argument with the message for ages
\* above 150
C14_Witness ==
    /\ call.fn = "validate_age" /\ call.arg = 151
    /\ ret = Thrown("invalid_argument", "unreasonable")

====
